---- MODULE Spec2Model ----
(***************************************************************************)
(* A model of the ClearBlade go-iot client library: the path-template      *)
(* engine (parser, Match, Render), the per-registry credential cache, the  *)
(* Do / doRequest dispatch protocol of the call builders and the Pages     *)
(* iteration helper.  Strings are sequences of one-character strings, so   *)
(* that splitting, joining, key formatting and number formatting are       *)
(* computed and not assumed.                                               *)
(***************************************************************************)
EXTENDS Integers, Sequences, FiniteSets, TLC

VARIABLES
  \* ---- path-template engine ----
  ptpc,        \* position of the template scenario: "init", "parsed", "matched", "rendered",
               \* "renderedWith" (Render called on bindings of the caller's own)
  template,    \* the template string handed to NewPathTemplate
  pt,          \* result of NewPathTemplate: [ok, segments, err]
  path,        \* the path handed to Match
  matched,     \* result of Match: [ok, values]
  rendered,    \* result of Render: [ok, built]
  given,       \* the bindings handed to Render
  \* ---- service, credential cache and call builders ----
  RegistryUserCache,  \* Service.RegistryUserCache: cache key -> credentials
  proc,               \* the process: "running", "fatal" (log.Fatalln), "panic", "mapFault"
  lookupCount,        \* number of credential lookups issued per (region, registry)
  calls,              \* number of call builders constructed so far
  call,               \* the current call builder and, once Do returned, its outcome
  \* ---- Pages on a list call ----
  pg,                 \* the list call and the Pages traversal in progress
  \* ---- concurrent resolutions ----
  gor,                \* per goroutine: position and locals inside GetRegistryCredentials
  mapWriter           \* goroutines in the middle of a write of the cache map

vars == <<ptpc, template, pt, path, matched, rendered, given,
          RegistryUserCache, proc, lookupCount, calls, call, pg, gor, mapWriter>>

ptVars == <<ptpc, template, pt, path, matched, rendered, given>>
svcVars == <<RegistryUserCache, proc, lookupCount, calls, call>>
pgVars == <<pg>>
concVars == <<gor, mapWriter>>

(***************************************************************************)
(* Strings                                                                 *)
(***************************************************************************)
EmptyMap == [k \in {} |-> <<>>]

MapSet(m, k, v) == [x \in (DOMAIN m) \cup {k} |-> IF x = k THEN v ELSE m[x]]

RECURSIVE Split(_, _)
\* strings.Split(s, sep) for a one-character separator: always at least one part
Split(s, sep) ==
  IF \A i \in 1..Len(s) : s[i] # sep THEN <<s>>
  ELSE LET i == CHOOSE j \in 1..Len(s) : s[j] = sep /\ \A k \in 1..(j - 1) : s[k] # sep
       IN <<SubSeq(s, 1, i - 1)>> \o Split(SubSeq(s, i + 1, Len(s)), sep)

RECURSIVE Join(_, _)
\* strings.Join(parts, sep)
Join(parts, sep) ==
  IF Len(parts) = 0 THEN <<>>
  ELSE IF Len(parts) = 1 THEN parts[1]
  ELSE parts[1] \o <<sep>> \o Join(Tail(parts), sep)

Digit(d) == <<"0", "1", "2", "3", "4", "5", "6", "7", "8", "9">>[d + 1]

RECURSIVE FormatInt(_)
\* the decimal text of a natural number (fmt's %d, strconv)
FormatInt(n) == IF n < 10 THEN <<Digit(n)>> ELSE FormatInt(n \div 10) \o <<Digit(n % 10)>>

(***************************************************************************)
(* Path templates: matchers                                                *)
(***************************************************************************)
\* A segment is [matcher, label, n, name]: matcher is "label" (labelMatcher,
\* its text in label), "wildcard" (wildcardMatcher) or "pathWildcard"
\* (pathWildcardMatcher, its integer value in n); name is <<>> when unnamed.
LabelSegment(lit, name) == [matcher |-> "label", label |-> lit, n |-> 0, name |-> name]

WildcardSegment(name) == [matcher |-> "wildcard", label |-> <<>>, n |-> 0, name |-> name]

PathWildcardSegment(n, name) == [matcher |-> "pathWildcard", label |-> <<>>, n |-> n, name |-> name]

\* labelMatcher.match: [err, length]
labelMatcherMatch(ls, segments) ==
  IF Len(segments) = 0 THEN [err |-> TRUE, length |-> 0]
  ELSE IF segments[1] # ls THEN [err |-> TRUE, length |-> 0]
  ELSE [err |-> FALSE, length |-> 1]

\* wildcardMatcher.match
wildcardMatcherMatch(segments) ==
  IF Len(segments) = 0 THEN [err |-> TRUE, length |-> 0]
  ELSE [err |-> FALSE, length |-> 1]

\* pathWildcardMatcher.match
pathWildcardMatcherMatch(pwm, segments) ==
  LET length == Len(segments) - pwm
  IN IF length <= 0 THEN [err |-> TRUE, length |-> 0]
     ELSE [err |-> FALSE, length |-> length]

\* segment.match: dispatch on the embedded matcher
segmentMatch(seg, segments) ==
  IF seg.matcher = "label" THEN labelMatcherMatch(seg.label, segments)
  ELSE IF seg.matcher = "wildcard" THEN wildcardMatcherMatch(segments)
  ELSE pathWildcardMatcherMatch(seg.n, segments)

\* matcher.String()
segmentString(seg) ==
  IF seg.matcher = "label" THEN seg.label
  ELSE IF seg.matcher = "wildcard" THEN <<"*">>
  ELSE <<"*", "*">>

(***************************************************************************)
(* Path templates: the recursive-descent parser                            *)
(***************************************************************************)
\* The parser state p is [s, pos, nextVar, seenName, seenPathWildcard, err]:
\* s is the template, pos the index of the next rune (runeCount = pos - 1),
\* err the message of the panic raised by pathTemplateParser.error, or "".
NewParser(s) ==
  [s |-> s, pos |-> 1, nextVar |-> 0, seenName |-> {}, seenPathWildcard |-> FALSE, err |-> ""]

\* pathTemplateParser.error
parserError(p, msg) == [p EXCEPT !.err = msg]

\* pathTemplateParser.consume: [ok, p]
consume(p, r) ==
  IF p.pos <= Len(p.s) /\ p.s[p.pos] = r
  THEN [ok |-> TRUE, p |-> [p EXCEPT !.pos = @ + 1]]
  ELSE [ok |-> FALSE, p |-> p]

StopRunes == {"/", "*", "}", "{", "="}

\* pathTemplateParser.consumeUntil("/*}{="): [lit, p]
consumeUntil(p) ==
  LET e == CHOOSE j \in p.pos..(Len(p.s) + 1) :
             /\ (j = Len(p.s) + 1 \/ p.s[j] \in StopRunes)
             /\ \A k \in p.pos..(j - 1) : p.s[k] \notin StopRunes
  IN [lit |-> SubSeq(p.s, p.pos, e - 1), p |-> [p EXCEPT !.pos = e]]

\* pathTemplateParser.literal: [lit, p]
literal(p) ==
  LET r == consumeUntil(p)
  IN IF r.lit = <<>> THEN [lit |-> r.lit, p |-> parserError(r.p, "empty literal")]
     ELSE r

\* fmt.Sprintf("$%d", p.nextVar)
AutoName(nextVar) == <<"$">> \o FormatInt(nextVar)

RECURSIVE parseSegments(_, _), parseSegment(_, _), parseVariable(_)
\* append(segs, p.segments(name)...): r is the segment parsed first, rest the
\* segments after the '/'
appendSegments(r, rest) == [segs |-> r.segs \o rest.segs, p |-> rest.p]

\* pathTemplateParser.segments once its first segment r is parsed
segmentsAfter(r, name) ==
  IF r.p.err # "" THEN r
  ELSE LET c == consume(r.p, "/")
       IN IF ~c.ok THEN r
          ELSE appendSegments(r, parseSegments(c.p, name))

\* pathTemplateParser.segments: [segs, p]
parseSegments(p, name) == segmentsAfter(parseSegment(p, name), name)

\* pathTemplateParser.segment: [segs, p]
parseSegment(p, name) ==
  LET star == consume(p, "*")
      brace == consume(p, "{")
  IN IF star.ok THEN
       LET nm == IF name = <<>> THEN AutoName(star.p.nextVar) ELSE name
           p1 == IF name = <<>> THEN [star.p EXCEPT !.nextVar = @ + 1] ELSE star.p
           star2 == consume(p1, "*")
       IN IF star2.ok THEN
            IF star2.p.seenPathWildcard
            THEN [segs |-> <<>>, p |-> parserError(star2.p, "multiple '**' disallowed")]
            ELSE [segs |-> <<PathWildcardSegment(0, nm)>>,
                  p |-> [star2.p EXCEPT !.seenPathWildcard = TRUE]]
          ELSE [segs |-> <<WildcardSegment(nm)>>, p |-> star2.p]
     ELSE IF brace.ok THEN
       IF name # <<>>
       THEN [segs |-> <<>>, p |-> parserError(brace.p, "recursive named bindings are not allowed")]
       ELSE parseVariable(brace.p)
     ELSE
       LET l == literal(p)
       IN IF l.p.err # "" THEN [segs |-> <<>>, p |-> l.p]
          ELSE [segs |-> <<LabelSegment(l.lit, name)>>, p |-> l.p]

\* the end of pathTemplateParser.variable: sub is what the binding holds
variableClose(sub) ==
  IF sub.p.err # "" THEN sub
  ELSE LET close == consume(sub.p, "}")
       IN IF ~close.ok THEN [segs |-> <<>>, p |-> parserError(close.p, "expected '}'")]
          ELSE [segs |-> sub.segs, p |-> close.p]

\* pathTemplateParser.variable ("{" already consumed): [segs, p]
parseVariable(p) ==
  LET l == literal(p)
  IN IF l.p.err # "" THEN [segs |-> <<>>, p |-> l.p]
     ELSE IF l.lit \in l.p.seenName
     THEN [segs |-> <<>>, p |-> parserError(l.p, "appears multiple times")]
     ELSE
       LET p1 == [l.p EXCEPT !.seenName = @ \cup {l.lit}]
           eq == consume(p1, "=")
       IN variableClose(IF eq.ok THEN parseSegments(eq.p, l.lit)
                        ELSE [segs |-> <<WildcardSegment(l.lit)>>, p |-> eq.p])

\* template() without the empty matcher for the initial '/'
parseTemplateNoAnchor(p) == parseSegments(consume(p, "/").p, <<>>)

\* pathTemplateParser.template: [segs, p]
parseTemplate(p) ==
  LET slash == consume(p, "/")
  IN IF slash.ok
     THEN appendSegments([segs |-> <<LabelSegment(<<>>, <<>>)>>, p |-> slash.p],
                         parseSegments(slash.p, <<>>))
     ELSE parseSegments(slash.p, <<>>)

\* the loop with the length one too large: the path wildcard leaves a path
\* segment too many to the segments after it
SetPathWildcardLengthOffByOne(segs) ==
  IF \A i \in 1..Len(segs) : segs[i].matcher # "pathWildcard" THEN segs
  ELSE LET i == CHOOSE j \in 1..Len(segs) :
                  /\ segs[j].matcher = "pathWildcard"
                  /\ \A k \in 1..(j - 1) : segs[k].matcher # "pathWildcard"
       IN [segs EXCEPT ![i] = PathWildcardSegment(Len(segs) - i + 1, segs[i].name)]

\* the loop of parsePathTemplate that sets the length of the first path wildcard
SetPathWildcardLength(segs) ==
  IF \A i \in 1..Len(segs) : segs[i].matcher # "pathWildcard" THEN segs
  ELSE LET i == CHOOSE j \in 1..Len(segs) :
                  /\ segs[j].matcher = "pathWildcard"
                  /\ \A k \in 1..(j - 1) : segs[k].matcher # "pathWildcard"
       IN [segs EXCEPT ![i] = PathWildcardSegment(Len(segs) - i, segs[i].name)]

NoParseError == [Pos |-> 0, Message |-> ""]

\* the end of parsePathTemplate: r is what p.template() left, a recovered
\* panic of the parser becomes the ParseError
parsedTemplate(r) ==
  IF r.p.err # ""
  THEN [ok |-> FALSE, segments |-> <<>>, err |-> [Pos |-> r.p.pos - 1, Message |-> r.p.err]]
  ELSE [ok |-> TRUE, segments |-> SetPathWildcardLength(r.segs), err |-> NoParseError]

\* parsePathTemplate: [ok, segments, err]; err is the ParseError (Pos, Message; its
\* Template is the argument)
parsePathTemplate(s) == parsedTemplate(parseTemplate(NewParser(s)))

\* NewPathTemplate
NewPathTemplate(s) == parsePathTemplate(s)

(***************************************************************************)
(* Path templates: Match and Render                                        *)
(***************************************************************************)
RECURSIVE MatchLoop(_, _, _, _)
\* the loop of PathTemplate.Match from segment i on, and the trailing-path test
MatchLoop(segments, i, paths, values) ==
  IF i > Len(segments) THEN
    IF Len(paths) # 0 THEN [ok |-> FALSE, values |-> EmptyMap]
    ELSE [ok |-> TRUE, values |-> values]
  ELSE
    LET seg == segments[i]
        m == segmentMatch(seg, paths)
        value == Join(SubSeq(paths, 1, m.length), "/")
        values1 ==
          IF seg.name # <<>> THEN
            IF seg.name \in DOMAIN values
            THEN MapSet(values, seg.name, values[seg.name] \o <<"/">> \o value)
            ELSE MapSet(values, seg.name, value)
          ELSE values
    IN IF m.err THEN [ok |-> FALSE, values |-> EmptyMap]
       ELSE MatchLoop(segments, i + 1, SubSeq(paths, m.length + 1, Len(paths)), values1)

\* Match without the test for a trailing path: the path is cut to the segments
\* the template consumes
MatchPrefix(segments, p) ==
  LET paths == Split(p, "/")
  IN MatchLoop(segments, 1, SubSeq(paths, 1, Len(segments)), EmptyMap)

\* PathTemplate.Match: [ok, values]; ok = FALSE stands for (nil, err)
Match(segments, p) == MatchLoop(segments, 1, Split(p, "/"), EmptyMap)

RECURSIVE RenderLoop(_, _, _, _, _)
\* the loop of PathTemplate.Render from segment i on
RenderLoop(segments, i, binding, lastVariableName, result) ==
  IF i > Len(segments) THEN [ok |-> TRUE, built |-> Join(result, "/")]
  ELSE
    LET name == segments[i].name
    IN IF lastVariableName # <<>> /\ name = lastVariableName
       THEN RenderLoop(segments, i + 1, binding, lastVariableName, result)
       ELSE IF name = <<>>
       THEN RenderLoop(segments, i + 1, binding, name, Append(result, segmentString(segments[i])))
       ELSE IF name \in DOMAIN binding
       THEN RenderLoop(segments, i + 1, binding, name, Append(result, binding[name]))
       ELSE [ok |-> FALSE, built |-> <<>>]

\* Render without the skipping of repeated names: one piece per segment
RenderEverySegment(segments, binding) ==
  LET F[k \in 0..Len(segments)] ==
        IF k = 0 THEN <<>>
        ELSE IF segments[k].name = <<>> THEN Append(F[k - 1], segmentString(segments[k]))
        ELSE IF segments[k].name \in DOMAIN binding
        THEN Append(F[k - 1], binding[segments[k].name])
        ELSE F[k - 1]
  IN IF \E k \in 1..Len(segments) :
          segments[k].name # <<>> /\ segments[k].name \notin DOMAIN binding
     THEN [ok |-> FALSE, built |-> <<>>]
     ELSE [ok |-> TRUE, built |-> Join(F[Len(segments)], "/")]

\* PathTemplate.Render: [ok, built]; ok = FALSE stands for ("", err)
Render(segments, binding) == RenderLoop(segments, 1, binding, <<>>, <<>>)

(***************************************************************************)
(* Scenario: compile a template, match a path, render the bindings back    *)
(***************************************************************************)
MaxTemplateSegs == 3

MaxPathSegs == 3

SeqsUpTo(S, n) == UNION {[1..k -> S] : k \in 1..n}

\* the '/'-separated pieces templates are assembled from; the empty piece gives
\* the leading slash, the doubled slash and the trailing slash
TemplatePieces ==
  { <<"a">>, <<"*">>, <<"*", "*">>, <<"{", "x", "}">>, <<"{", "$", "0", "}">>,
    <<"{", "x", "=", "a", "/", "*", "}">>, <<"{", "x">>, <<>>,
    \* a path wildcard inside a binding, alone and after a literal
    <<"{", "$", "0", "=", "*", "*", "}">>, <<"{", "x", "=", "a", "/", "*", "*", "}">>,
    \* a binding inside a binding
    <<"{", "x", "=", "{", "y", "}", "}">>,
    \* text the grammar cannot continue with after a segment
    <<"a", "}">>, <<"a", "=", "b">>, <<"*", "*", "*">> }

Templates == {Join(ps, "/") : ps \in SeqsUpTo(TemplatePieces, MaxTemplateSegs)}

PathPieces == { <<"a">>, <<"b">>, <<>> }

Paths == {Join(ps, "/") : ps \in SeqsUpTo(PathPieces, MaxPathSegs)}

NoTemplate == [ok |-> FALSE, segments |-> <<>>, err |-> NoParseError]

NoMatch == [ok |-> FALSE, values |-> EmptyMap]

NoRender == [ok |-> FALSE, built |-> <<>>]

PTInit ==
  /\ ptpc = "init"
  /\ template = <<>>
  /\ pt = NoTemplate
  /\ path = <<>>
  /\ matched = NoMatch
  /\ rendered = NoRender
  /\ given = EmptyMap

\* pt, err := NewPathTemplate(t)
PTNew ==
  /\ ptpc = "init"
  /\ \E t \in Templates :
       /\ template' = t
       /\ pt' = NewPathTemplate(t)
  /\ ptpc' = "parsed"
  /\ UNCHANGED <<path, matched, rendered, given>>
  /\ UNCHANGED <<svcVars, pgVars, concVars>>

\* values, err := pt.Match(p)
PTMatch ==
  /\ ptpc = "parsed"
  /\ pt.ok
  /\ \E p \in Paths :
       /\ path' = p
       /\ matched' = Match(pt.segments, p)
  /\ ptpc' = "matched"
  /\ UNCHANGED <<template, pt, rendered, given>>
  /\ UNCHANGED <<svcVars, pgVars, concVars>>

\* built, err := pt.Render(values) on the bindings Match returned
PTRender ==
  /\ ptpc = "matched"
  /\ matched.ok
  /\ given' = matched.values
  /\ rendered' = Render(pt.segments, matched.values)
  /\ ptpc' = "rendered"
  /\ UNCHANGED <<template, pt, path, matched>>
  /\ UNCHANGED <<svcVars, pgVars, concVars>>

\* the variable names and the values of the bindings a caller builds: names the
\* templates use and one they never use
BindingNames == { <<"x">>, <<"$", "0">>, <<"$", "1">>, <<"z">> }

BindingValues == { <<"a">>, <<"b">> }

Bindings == UNION {[names -> BindingValues] : names \in SUBSET BindingNames}

\* built, err := pt.Render(b) on bindings of the caller's own
PTRenderWith ==
  /\ ptpc = "parsed"
  /\ pt.ok
  /\ \E b \in Bindings :
       /\ given' = b
       /\ rendered' = Render(pt.segments, b)
  /\ ptpc' = "renderedWith"
  /\ UNCHANGED <<template, pt, path, matched>>
  /\ UNCHANGED <<svcVars, pgVars, concVars>>

(***************************************************************************)
(* Service: templates, credentials and the credential cache                *)
(***************************************************************************)
\* the three templates newservice compiles
DevicePathTemplateText ==
  <<"p", "r", "o", "j", "e", "c", "t", "s", "/",
    "{", "p", "r", "o", "j", "e", "c", "t", "}", "/", "l", "o", "c", "a", "t", "i", "o", "n", "s", "/",
    "{", "l", "o", "c", "a", "t", "i", "o", "n", "}", "/", "r", "e", "g", "i", "s", "t", "r", "i", "e", "s", "/",
    "{", "r", "e", "g", "i", "s", "t", "r", "y", "}", "/", "d", "e", "v", "i", "c", "e", "s", "/",
    "{", "d", "e", "v", "i", "c", "e", "}">>

LocationPathTemplateText ==
  <<"p", "r", "o", "j", "e", "c", "t", "s", "/",
    "{", "p", "r", "o", "j", "e", "c", "t", "}", "/", "l", "o", "c", "a", "t", "i", "o", "n", "s", "/",
    "{", "l", "o", "c", "a", "t", "i", "o", "n", "}">>

RegistryPathTemplateText ==
  <<"p", "r", "o", "j", "e", "c", "t", "s", "/",
    "{", "p", "r", "o", "j", "e", "c", "t", "}", "/", "l", "o", "c", "a", "t", "i", "o", "n", "s", "/",
    "{", "l", "o", "c", "a", "t", "i", "o", "n", "}", "/", "r", "e", "g", "i", "s", "t", "r", "i", "e", "s", "/",
    "{", "r", "e", "g", "i", "s", "t", "r", "y", "}">>

DevicePathTemplate == NewPathTemplate(DevicePathTemplateText)

LocationPathTemplate == NewPathTemplate(LocationPathTemplateText)

RegistryPathTemplate == NewPathTemplate(RegistryPathTemplateText)

\* the variable names the call builders read from a match
RegistryVar == <<"r", "e", "g", "i", "s", "t", "r", "y">>

LocationVar == <<"l", "o", "c", "a", "t", "i", "o", "n">>

\* fmt.Sprintf("%s/api/v/1/code/%s/getRegistryCredentials", Url, SystemKey)
LookupURL(url, systemKey) ==
  url \o <<"/", "a", "p", "i", "/", "v", "/", "1", "/", "c", "o", "d", "e", "/">>
      \o systemKey \o <<"/", "g", "e", "t", "R", "e", "g", "i", "s", "t", "r", "y", "C", "r", "e", "d", "e", "n", "t", "i", "a", "l", "s">>

\* fmt.Sprintf("%s/api/v/4/webhook/execute/%s/<endpoint>", Url, SystemKey)
WebhookURL(url, systemKey, endpoint) ==
  url \o <<"/", "a", "p", "i", "/", "v", "/", "4", "/", "w", "e", "b", "h", "o", "o", "k", "/", "e", "x", "e", "c", "u", "t", "e", "/">>
      \o systemKey \o <<"/">> \o endpoint

EndpointCloudiot == <<"c", "l", "o", "u", "d", "i", "o", "t">>

EndpointDevices == <<"c", "l", "o", "u", "d", "i", "o", "t", "_", "d", "e", "v", "i", "c", "e", "s">>

EndpointConfigVersions ==
  <<"c", "l", "o", "u", "d", "i", "o", "t", "_", "d", "e", "v", "i", "c", "e", "s", "_", "c", "o", "n", "f", "i", "g", "V", "e", "r", "s", "i", "o", "n", "s">>

EndpointStates ==
  <<"c", "l", "o", "u", "d", "i", "o", "t", "_", "d", "e", "v", "i", "c", "e", "s", "_", "s", "t", "a", "t", "e", "s">>

(***************************************************************************)
(* The call builders.  Every call type of iot.go, with what its            *)
(* constructor, its doRequest and its Do do:                               *)
(*   tmpl      the template doRequest matches the resource name against    *)
(*             ("none": no match, the service's top-level credentials)     *)
(*   endpoint, method   of the webhook request                             *)
(*   decode    Do hands the 2xx response to gensupport.DecodeResponse      *)
(*   drain     Do reads the whole response body before classifying it      *)
(*   disabled  doRequest returns errors.New("Not implemented") at once     *)
(*   ctorKey, ctorMethod   query parameters the constructor sets: the      *)
(*             resource name under ctorKey, "method" to ctorMethod         *)
(*   reqName, reqMethod    query parameters doRequest sets                 *)
(*   paged     the response type has a NextPageToken                       *)
(***************************************************************************)
CallSpec ==
     ("RegistriesBindDeviceToGateway" :>
      [tmpl |-> "registry", endpoint |-> EndpointCloudiot, method |-> "POST", decode |-> TRUE, drain |-> FALSE, disabled |-> FALSE,
       ctorKey |-> "", ctorMethod |-> "bindDeviceToGateway", reqName |-> FALSE, reqMethod |-> "", paged |-> FALSE])
  @@ ("RegistriesCreate" :>
      [tmpl |-> "none", endpoint |-> EndpointCloudiot, method |-> "POST", decode |-> TRUE, drain |-> FALSE, disabled |-> FALSE,
       ctorKey |-> "parent", ctorMethod |-> "", reqName |-> FALSE, reqMethod |-> "", paged |-> FALSE])
  @@ ("RegistriesDelete" :>
      [tmpl |-> "none", endpoint |-> EndpointCloudiot, method |-> "DELETE", decode |-> FALSE, drain |-> FALSE, disabled |-> FALSE,
       ctorKey |-> "", ctorMethod |-> "", reqName |-> FALSE, reqMethod |-> "", paged |-> FALSE])
  @@ ("RegistriesGet" :>
      [tmpl |-> "registry", endpoint |-> EndpointCloudiot, method |-> "GET", decode |-> TRUE, drain |-> FALSE, disabled |-> FALSE,
       ctorKey |-> "", ctorMethod |-> "", reqName |-> FALSE, reqMethod |-> "", paged |-> FALSE])
  @@ ("RegistriesGetIamPolicy" :>
      [tmpl |-> "none", endpoint |-> <<>>, method |-> "", decode |-> TRUE, drain |-> FALSE, disabled |-> TRUE,
       ctorKey |-> "", ctorMethod |-> "", reqName |-> FALSE, reqMethod |-> "", paged |-> FALSE])
  @@ ("RegistriesList" :>
      [tmpl |-> "none", endpoint |-> EndpointCloudiot, method |-> "GET", decode |-> TRUE, drain |-> TRUE, disabled |-> FALSE,
       ctorKey |-> "parent", ctorMethod |-> "", reqName |-> FALSE, reqMethod |-> "", paged |-> TRUE])
  @@ ("RegistriesPatch" :>
      [tmpl |-> "registry", endpoint |-> EndpointCloudiot, method |-> "PATCH", decode |-> TRUE, drain |-> FALSE, disabled |-> FALSE,
       ctorKey |-> "name", ctorMethod |-> "", reqName |-> FALSE, reqMethod |-> "", paged |-> FALSE])
  @@ ("RegistriesSetIamPolicy" :>
      [tmpl |-> "none", endpoint |-> <<>>, method |-> "", decode |-> TRUE, drain |-> FALSE, disabled |-> TRUE,
       ctorKey |-> "", ctorMethod |-> "", reqName |-> FALSE, reqMethod |-> "", paged |-> FALSE])
  @@ ("RegistriesTestIamPermissions" :>
      [tmpl |-> "none", endpoint |-> <<>>, method |-> "", decode |-> TRUE, drain |-> FALSE, disabled |-> TRUE,
       ctorKey |-> "", ctorMethod |-> "", reqName |-> FALSE, reqMethod |-> "", paged |-> FALSE])
  @@ ("RegistriesUnbindDeviceFromGateway" :>
      [tmpl |-> "registry", endpoint |-> EndpointCloudiot, method |-> "POST", decode |-> TRUE, drain |-> FALSE, disabled |-> FALSE,
       ctorKey |-> "", ctorMethod |-> "unbindDeviceFromGateway", reqName |-> FALSE, reqMethod |-> "", paged |-> FALSE])
  @@ ("DevicesCreate" :>
      [tmpl |-> "registry", endpoint |-> EndpointDevices, method |-> "POST", decode |-> TRUE, drain |-> FALSE, disabled |-> FALSE,
       ctorKey |-> "", ctorMethod |-> "", reqName |-> FALSE, reqMethod |-> "", paged |-> FALSE])
  @@ ("DevicesDelete" :>
      [tmpl |-> "device", endpoint |-> EndpointDevices, method |-> "DELETE", decode |-> FALSE, drain |-> FALSE, disabled |-> FALSE,
       ctorKey |-> "", ctorMethod |-> "", reqName |-> TRUE, reqMethod |-> "", paged |-> FALSE])
  @@ ("DevicesGet" :>
      [tmpl |-> "device", endpoint |-> EndpointDevices, method |-> "GET", decode |-> TRUE, drain |-> FALSE, disabled |-> FALSE,
       ctorKey |-> "", ctorMethod |-> "", reqName |-> TRUE, reqMethod |-> "", paged |-> FALSE])
  @@ ("DevicesList" :>
      [tmpl |-> "registry", endpoint |-> EndpointDevices, method |-> "GET", decode |-> TRUE, drain |-> FALSE, disabled |-> FALSE,
       ctorKey |-> "parent", ctorMethod |-> "", reqName |-> FALSE, reqMethod |-> "", paged |-> TRUE])
  @@ ("DevicesModifyCloudToDeviceConfig" :>
      [tmpl |-> "device", endpoint |-> EndpointDevices, method |-> "POST", decode |-> TRUE, drain |-> FALSE, disabled |-> FALSE,
       ctorKey |-> "name", ctorMethod |-> "modifyCloudToDeviceConfig", reqName |-> FALSE, reqMethod |-> "", paged |-> FALSE])
  @@ ("DevicesPatch" :>
      [tmpl |-> "device", endpoint |-> EndpointDevices, method |-> "PATCH", decode |-> TRUE, drain |-> FALSE, disabled |-> FALSE,
       ctorKey |-> "", ctorMethod |-> "", reqName |-> TRUE, reqMethod |-> "", paged |-> FALSE])
  @@ ("DevicesSendCommandToDevice" :>
      [tmpl |-> "device", endpoint |-> EndpointDevices, method |-> "POST", decode |-> TRUE, drain |-> FALSE, disabled |-> FALSE,
       ctorKey |-> "", ctorMethod |-> "sendCommandToDevice", reqName |-> TRUE, reqMethod |-> "sendCommandToDevice", paged |-> FALSE])
  @@ ("DevicesConfigVersionsList" :>
      [tmpl |-> "device", endpoint |-> EndpointConfigVersions, method |-> "GET", decode |-> TRUE, drain |-> FALSE, disabled |-> FALSE,
       ctorKey |-> "name", ctorMethod |-> "", reqName |-> FALSE, reqMethod |-> "", paged |-> FALSE])
  @@ ("DevicesStatesList" :>
      [tmpl |-> "device", endpoint |-> EndpointStates, method |-> "GET", decode |-> TRUE, drain |-> FALSE, disabled |-> FALSE,
       ctorKey |-> "name", ctorMethod |-> "", reqName |-> FALSE, reqMethod |-> "", paged |-> FALSE])
  @@ ("GroupsGetIamPolicy" :>
      [tmpl |-> "none", endpoint |-> <<>>, method |-> "", decode |-> TRUE, drain |-> FALSE, disabled |-> TRUE,
       ctorKey |-> "", ctorMethod |-> "", reqName |-> FALSE, reqMethod |-> "", paged |-> FALSE])
  @@ ("GroupsSetIamPolicy" :>
      [tmpl |-> "none", endpoint |-> <<>>, method |-> "", decode |-> TRUE, drain |-> FALSE, disabled |-> TRUE,
       ctorKey |-> "", ctorMethod |-> "", reqName |-> FALSE, reqMethod |-> "", paged |-> FALSE])
  @@ ("GroupsTestIamPermissions" :>
      [tmpl |-> "none", endpoint |-> <<>>, method |-> "", decode |-> TRUE, drain |-> FALSE, disabled |-> TRUE,
       ctorKey |-> "", ctorMethod |-> "", reqName |-> FALSE, reqMethod |-> "", paged |-> FALSE])
  @@ ("GroupsDevicesList" :>
      [tmpl |-> "none", endpoint |-> <<>>, method |-> "", decode |-> TRUE, drain |-> FALSE, disabled |-> TRUE,
       ctorKey |-> "", ctorMethod |-> "", reqName |-> FALSE, reqMethod |-> "", paged |-> TRUE])

CallTypes == DOMAIN CallSpec

(***************************************************************************)
(* Values of the scenario: credentials, resource names, server answers     *)
(***************************************************************************)
\* s.ServiceAccountCredentials, the top-level credentials of the service
ServiceAccountCredentials ==
  [SystemKey |-> <<"k", "0">>, Token |-> <<"t", "0">>, Url |-> <<"u", "0">>,
   Project |-> <<"p">>]

\* the zero value of RegistryUserCredentials
ZeroCredentials == [SystemKey |-> <<>>, Token |-> <<>>, Url |-> <<>>]

\* (region, registry) pairs; two of them format to the same cache key
Pairs ==
  { << <<"a", "-", "b">>, <<"c">> >>,
    << <<"a">>, <<"b", "-", "c">> >>,
    << <<"a">>, <<"c">> >> }

\* an index telling the pairs apart in the credentials the server hands out
PairId(pair) ==
  IF pair = << <<"a", "-", "b">>, <<"c">> >> THEN "1"
  ELSE IF pair = << <<"a">>, <<"b", "-", "c">> >> THEN "2"
  ELSE "3"

Projects == <<"p", "r", "o", "j", "e", "c", "t", "s">>

LocationsLit == <<"l", "o", "c", "a", "t", "i", "o", "n", "s">>

RegistriesLit == <<"r", "e", "g", "i", "s", "t", "r", "i", "e", "s">>

DevicesLit == <<"d", "e", "v", "i", "c", "e", "s">>

LocationName(region) ==
  Join(<<Projects, ServiceAccountCredentials.Project, LocationsLit, region>>, "/")

RegistryName(pair) ==
  Join(<<Projects, ServiceAccountCredentials.Project, LocationsLit, pair[1],
         RegistriesLit, pair[2]>>, "/")

DeviceName(pair) ==
  Join(<<Projects, ServiceAccountCredentials.Project, LocationsLit, pair[1],
         RegistriesLit, pair[2], DevicesLit, <<"d">> >>, "/")

\* a registry name whose project segment is empty: "projects//locations/a/registries/c"
EmptyProjectName ==
  Join(<<Projects, <<>>, LocationsLit, <<"a">>, RegistriesLit, <<"c">> >>, "/")

\* the resource names handed to the call constructors
Names ==
  {RegistryName(p) : p \in Pairs} \cup {DeviceName(p) : p \in Pairs}
    \cup {LocationName(<<"a">>), EmptyProjectName}

\* JSON bodies.  form is "creds" (the credential record of the lookup endpoint),
\* "object" (a JSON object of a response type; nextPageToken is absent, a JSON
\* string or a JSON number), "envelope" ({"error": {code, message, status}}),
\* "emptyObject" ({}) or "garbage" (not JSON).
NoToken == [type |-> "absent", str |-> <<>>, num |-> 0]

StringToken(s) == [type |-> "string", str |-> s, num |-> 0]

NumberToken(n) == [type |-> "number", str |-> <<>>, num |-> n]

Body(form, tok) ==
  [form |-> form, systemKey |-> <<>>, serviceAccountToken |-> <<>>, url |-> <<>>,
   nextPageToken |-> tok, code |-> 0, message |-> "", status |-> ""]

CredsBody(pair, url) ==
  [Body("creds", NoToken) EXCEPT !.systemKey = <<"k", PairId(pair)>>,
                                 !.serviceAccountToken = <<"t", PairId(pair)>>,
                                 !.url = url]

EnvelopeBody ==
  [Body("envelope", NoToken) EXCEPT !.code = 5, !.message = "not found",
                                    !.status = "NOT_FOUND"]

\* what s.client.Do hands back: kind "transportErr" (nil response and an error),
\* "readErr" (a response whose body cannot be read) or "response"
Response(status, body) ==
  [kind |-> "response", status |-> status, header |-> "h", body |-> body]

TransportErr == [kind |-> "transportErr", status |-> 0, header |-> "", body |-> Body("garbage", NoToken)]

ReadErr == [kind |-> "readErr", status |-> 200, header |-> "h", body |-> Body("garbage", NoToken)]

\* answers of the credential lookup endpoint to a lookup for pair
LookupOutcomes(pair) ==
  { TransportErr, ReadErr,
    Response(200, CredsBody(pair, <<"u", PairId(pair)>>)),
    Response(200, CredsBody(pair, <<"%">>)),
    Response(200, Body("garbage", NoToken)),
    Response(500, EnvelopeBody) }

\* answers of the webhook endpoint to a call that is not followed page by page
MainOutcomes ==
  { TransportErr,
    Response(200, Body("object", NoToken)),
    Response(200, Body("garbage", NoToken)),
    Response(304, Body("garbage", NoToken)),
    Response(404, EnvelopeBody),
    Response(404, Body("emptyObject", NoToken)),
    Response(404, Body("garbage", NoToken)) }

(***************************************************************************)
(* gensupport.URLParams: the query parameters of a call                    *)
(***************************************************************************)
\* a map from parameter name to its value; SetMulti is not exercised
NoParams == [k \in {} |-> <<>>]

\* URLParams.Get: the value, "" when the parameter is absent
URLParamsGet(params, key) == IF key \in DOMAIN params THEN params[key] ELSE <<>>

\* URLParams.Set
URLParamsSet(params, key, value) == MapSet(params, key, value)

\* the parameter names in the order url.Values.Encode sorts them
ParamOrder == <<"method", "name", "pageToken", "parent">>

\* URLParams.Encode: the "key=value" pairs present, sorted by key, an absent
\* parameter left out and a parameter set to "" kept as "key="; the percent
\* escaping of the values, one to one, is left out
URLParamsEncode(params) ==
  LET F[i \in 0..Len(ParamOrder)] ==
        IF i = 0 THEN <<>>
        ELSE IF ParamOrder[i] \in DOMAIN params
        THEN Append(F[i - 1], <<ParamOrder[i], params[ParamOrder[i]]>>)
        ELSE F[i - 1]
  IN F[Len(ParamOrder)]

MethodValue(m) ==
  IF m = "bindDeviceToGateway"
  THEN <<"b", "i", "n", "d", "D", "e", "v", "i", "c", "e", "T", "o", "G", "a", "t", "e", "w", "a", "y">>
  ELSE IF m = "unbindDeviceFromGateway"
  THEN <<"u", "n", "b", "i", "n", "d", "D", "e", "v", "i", "c", "e", "F", "r", "o", "m", "G", "a", "t", "e", "w", "a", "y">>
  ELSE IF m = "modifyCloudToDeviceConfig"
  THEN <<"m", "o", "d", "i", "f", "y", "C", "l", "o", "u", "d", "T", "o", "D", "e", "v", "i", "c", "e", "C", "o", "n", "f", "i", "g">>
  ELSE <<"s", "e", "n", "d", "C", "o", "m", "m", "a", "n", "d", "T", "o", "D", "e", "v", "i", "c", "e">>

\* the query parameters a constructor leaves on a fresh call
NewCallParams(c, name) ==
  LET withKey == IF CallSpec[c].ctorKey # ""
                 THEN URLParamsSet(NoParams, CallSpec[c].ctorKey, name) ELSE NoParams
  IN IF CallSpec[c].ctorMethod # ""
     THEN URLParamsSet(withKey, "method", MethodValue(CallSpec[c].ctorMethod))
     ELSE withKey

(***************************************************************************)
(* GetRegistryCredentials                                                  *)
(***************************************************************************)
\* fmt.Sprintf("%s-%s", region, registry)
cacheKey(region, registry) == region \o <<"-">> \o registry

\* json.Unmarshal(body, &credentials) with the error dropped: the fields of a
\* credential record are copied, anything else leaves the zero value
UnmarshalCredentials(body) ==
  IF body.form = "creds"
  THEN [SystemKey |-> body.systemKey, Token |-> body.serviceAccountToken, Url |-> body.url]
  ELSE ZeroCredentials

\* the POST to the "getRegistryCredentials" code service
LookupRequest(registry, region) ==
  [kind |-> "lookup", method |-> "POST",
   url |-> LookupURL(ServiceAccountCredentials.Url, ServiceAccountCredentials.SystemKey),
   token |-> ServiceAccountCredentials.Token,
   query |-> <<>>,
   body |-> <<region, registry, ServiceAccountCredentials.Project>>]

\* the function with the cache write left out
GetRegistryCredentialsNoStore(registry, region, cache, lk) ==
  LET key == cacheKey(region, registry)
      credentials == UnmarshalCredentials(lk.body)
  IN IF key \in DOMAIN cache
     THEN [creds |-> cache[key], cache |-> cache, exit |-> FALSE, requests |-> <<>>,
           lookup |-> "hit"]
     ELSE IF lk.kind \in {"transportErr", "readErr"}
     THEN [creds |-> ZeroCredentials, cache |-> cache, exit |-> TRUE,
           requests |-> <<LookupRequest(registry, region)>>, lookup |-> "miss"]
     ELSE [creds |-> credentials, cache |-> cache,
           exit |-> FALSE, requests |-> <<LookupRequest(registry, region)>>,
           lookup |-> "miss"]

\* the function with the test of the cache left out
GetRegistryCredentialsRefetch(registry, region, cache, lk) ==
  LET key == cacheKey(region, registry)
      credentials == UnmarshalCredentials(lk.body)
  IN IF lk.kind \in {"transportErr", "readErr"}
     THEN [creds |-> ZeroCredentials, cache |-> cache, exit |-> TRUE,
           requests |-> <<LookupRequest(registry, region)>>, lookup |-> "miss"]
     ELSE [creds |-> credentials, cache |-> MapSet(cache, key, credentials),
           exit |-> FALSE, requests |-> <<LookupRequest(registry, region)>>,
           lookup |-> "miss"]

\* GetRegistryCredentials(registry, region, s) on the cache `cache`, the lookup
\* endpoint answering lk: [creds, cache, exit, requests, lookup].  exit is
\* log.Fatalln: the process ends inside the call.
GetRegistryCredentials(registry, region, cache, lk) ==
  LET key == cacheKey(region, registry)
      credentials == UnmarshalCredentials(lk.body)
  IN IF key \in DOMAIN cache
     THEN [creds |-> cache[key], cache |-> cache, exit |-> FALSE, requests |-> <<>>,
           lookup |-> "hit"]
     ELSE IF lk.kind \in {"transportErr", "readErr"}
     THEN [creds |-> ZeroCredentials, cache |-> cache, exit |-> TRUE,
           requests |-> <<LookupRequest(registry, region)>>, lookup |-> "miss"]
     ELSE [creds |-> credentials, cache |-> MapSet(cache, key, credentials),
           exit |-> FALSE, requests |-> <<LookupRequest(registry, region)>>,
           lookup |-> "miss"]

(***************************************************************************)
(* Errors and responses of a call                                          *)
(***************************************************************************)
Error(kind) == [kind |-> kind, code |-> 0, message |-> "", status |-> "", header |-> ""]

NilError == Error("nil")

NilResponse == [nil |-> TRUE, status |-> 0, header |-> "", body |-> Body("garbage", NoToken)]

NilRet == [nil |-> TRUE, HTTPStatusCode |-> 0, Header |-> "", NextPageToken |-> <<>>]

\* url.Parse inside http.NewRequest: of the URLs of this scenario only the one
\* with a stray '%' does not parse
ParseableURL(url) == \A i \in 1..Len(url) : url[i] # "%"

\* http.Client.Do refuses a URL without scheme before any I/O
HasScheme(url) == url # <<>> /\ url[1] # "/"

\* gensupport.SendRequest(ctx, client, req): (nil, err) or (res, nil); mo is the
\* answer of the server
SendRequest(req, mo) ==
  IF ~HasScheme(req.url) \/ mo.kind = "transportErr"
  THEN [res |-> NilResponse, err |-> Error("transport")]
  ELSE [res |-> [nil |-> FALSE, status |-> mo.status, header |-> mo.header, body |-> mo.body],
        err |-> NilError]

\* createHTTPError(res); drained tells that the body was read to its end before
createHTTPError(res, drained) ==
  IF drained \/ res.body.form \notin {"envelope", "emptyObject"}
  THEN Error("decode")
  ELSE [Error("http") EXCEPT !.code = res.body.code, !.message = res.body.message,
                             !.status = res.body.status]

\* gensupport.WrapError(&googleapi.Error{Code: res.StatusCode, Header: res.Header})
NotModifiedError(res) == [Error("notModified") EXCEPT !.code = res.status, !.header = res.header]

\* the continuation token as the string the caller sees: a JSON string as it
\* is, a JSON number as its decimal text
NormalizeToken(tok) ==
  IF tok.type = "string" THEN tok.str
  ELSE IF tok.type = "number" THEN FormatInt(tok.num)
  ELSE <<>>

\* gensupport.DecodeResponse(target, res) into the response type of call c:
\* [err, ret]
DecodeResponse(c, ret, res, drained) ==
  IF drained \/ res.body.form = "garbage"
  THEN [err |-> Error("decode"), ret |-> ret]
  ELSE [err |-> NilError,
        ret |-> IF CallSpec[c].paged /\ res.body.form = "object"
                THEN [ret EXCEPT !.NextPageToken = NormalizeToken(res.body.nextPageToken)]
                ELSE ret]

(***************************************************************************)
(* doRequest and Do                                                        *)
(***************************************************************************)
\* the template a call type matches its resource name against
CallTemplate(c) ==
  IF CallSpec[c].tmpl = "device" THEN DevicePathTemplate ELSE RegistryPathTemplate

\* Match of the two service templates on the resource names of the scenario,
\* evaluated once
DeviceMatches == [name \in Names |-> Match(DevicePathTemplate.segments, name)]

RegistryMatches == [name \in Names |-> Match(RegistryPathTemplate.segments, name)]

\* c.s.TemplatePaths.<template of c>.Match(name)
CallMatch(c, name) ==
  IF name \in Names
  THEN IF CallSpec[c].tmpl = "device" THEN DeviceMatches[name] ELSE RegistryMatches[name]
  ELSE Match(CallTemplate(c).segments, name)

\* the request built with the Url of the service's own credentials whatever
\* record the SystemKey and the Token come from
buildAndSendMixed(c, params, creds, mo) ==
  LET urls == WebhookURL(ServiceAccountCredentials.Url, creds.SystemKey, CallSpec[c].endpoint)
      req == [kind |-> "main", method |-> CallSpec[c].method, url |-> urls,
              token |-> creds.Token, query |-> URLParamsEncode(params), body |-> <<>>]
      sent == SendRequest(req, mo)
  IN IF ~ParseableURL(urls)
     THEN [res |-> NilResponse, err |-> Error("newRequest"), requests |-> <<>>]
     ELSE [res |-> sent.res, err |-> sent.err, requests |-> <<req>>]

\* the tail of every doRequest: build the request with the credentials, hand
\* it to gensupport.SendRequest
buildAndSend(c, params, creds, mo) ==
  LET urls == WebhookURL(creds.Url, creds.SystemKey, CallSpec[c].endpoint)
      req == [kind |-> "main", method |-> CallSpec[c].method, url |-> urls,
              token |-> creds.Token, query |-> URLParamsEncode(params), body |-> <<>>]
      sent == SendRequest(req, mo)
  IN IF ~ParseableURL(urls)
     THEN [res |-> NilResponse, err |-> Error("newRequest"), requests |-> <<>>]
     ELSE [res |-> sent.res, err |-> sent.err, requests |-> <<req>>]

\* the doRequest of a call that resolves registry credentials, once
\* GetRegistryCredentials returned got (or ended the process)
doRequestResolved(c, name, params, mo, got) ==
  LET spec == CallSpec[c]
      params1 == IF spec.reqName THEN URLParamsSet(params, "name", name) ELSE params
      params2 == IF spec.reqMethod # ""
                 THEN URLParamsSet(params1, "method", MethodValue(spec.reqMethod))
                 ELSE params1
      viaRegistry == buildAndSend(c, params2, got.creds, mo)
  IN IF got.exit
     THEN [res |-> NilResponse, err |-> NilError, cache |-> got.cache, exit |-> TRUE,
           requests |-> got.requests, params |-> params, lookup |-> got.lookup]
     ELSE [res |-> viaRegistry.res, err |-> viaRegistry.err, cache |-> got.cache,
           exit |-> FALSE, requests |-> got.requests \o viaRegistry.requests,
           params |-> params2, lookup |-> got.lookup]

\* doRequest with the early return of the disabled operations left out: the
\* request is built and sent with the credentials of the service
doRequestEnabled(c, name, params, cache, lk, mo, matches) ==
  LET spec == CallSpec[c]
      viaTop == buildAndSend(c, params, ServiceAccountCredentials, mo)
  IN IF spec.disabled \/ spec.tmpl = "none"
     THEN [res |-> viaTop.res, err |-> viaTop.err, cache |-> cache, exit |-> FALSE,
           requests |-> viaTop.requests, params |-> params, lookup |-> "none"]
     ELSE IF ~matches.ok
     THEN [res |-> NilResponse, err |-> Error("match"), cache |-> cache, exit |-> FALSE,
           requests |-> <<>>, params |-> params, lookup |-> "none"]
     ELSE doRequestResolved(c, name, params, mo,
            GetRegistryCredentials(matches.values[RegistryVar], matches.values[LocationVar],
                                   cache, lk))

\* doRequest with the error of Match ignored: a name that does not match is
\* sent with the credentials of the service
doRequestMatchIgnored(c, name, params, cache, lk, mo, matches) ==
  LET spec == CallSpec[c]
      viaTop == buildAndSend(c, params, ServiceAccountCredentials, mo)
  IN IF spec.disabled
     THEN [res |-> NilResponse, err |-> Error("notImplemented"), cache |-> cache,
           exit |-> FALSE, requests |-> <<>>, params |-> params, lookup |-> "none"]
     ELSE IF spec.tmpl = "none" \/ ~matches.ok
     THEN [res |-> viaTop.res, err |-> viaTop.err, cache |-> cache, exit |-> FALSE,
           requests |-> viaTop.requests, params |-> params, lookup |-> "none"]
     ELSE doRequestResolved(c, name, params, mo,
            GetRegistryCredentials(matches.values[RegistryVar], matches.values[LocationVar],
                                   cache, lk))

\* doRequest once the template answered matches for the resource name
doRequestMatched(c, name, params, cache, lk, mo, matches) ==
  LET spec == CallSpec[c]
      viaTop == buildAndSend(c, params, ServiceAccountCredentials, mo)
  IN IF spec.disabled
     THEN [res |-> NilResponse, err |-> Error("notImplemented"), cache |-> cache,
           exit |-> FALSE, requests |-> <<>>, params |-> params, lookup |-> "none"]
     ELSE IF spec.tmpl = "none"
     THEN [res |-> viaTop.res, err |-> viaTop.err, cache |-> cache, exit |-> FALSE,
           requests |-> viaTop.requests, params |-> params, lookup |-> "none"]
     ELSE IF ~matches.ok
     THEN [res |-> NilResponse, err |-> Error("match"), cache |-> cache, exit |-> FALSE,
           requests |-> <<>>, params |-> params, lookup |-> "none"]
     ELSE doRequestResolved(c, name, params, mo,
            GetRegistryCredentials(matches.values[RegistryVar], matches.values[LocationVar],
                                   cache, lk))

\* c.doRequest("json") of call type c on resource name `name`:
\* [res, err, cache, exit, requests, params, lookup]
doRequest(c, name, params, cache, lk, mo) ==
  doRequestMatched(c, name, params, cache, lk, mo, CallMatch(c, name))

\* the classification without the test for 304 in front of it
classifyNoNotModified(c, res, err, drained) ==
  LET ret == [nil |-> FALSE, HTTPStatusCode |-> res.status, Header |-> res.header,
              NextPageToken |-> <<>>]
      dec == DecodeResponse(c, ret, res, drained)
  IN IF err.kind # "nil"
     THEN [ret |-> NilRet, err |-> err]
     ELSE IF res.status > 299 \/ res.status < 200
     THEN [ret |-> NilRet, err |-> createHTTPError(res, drained)]
     ELSE IF ~CallSpec[c].decode
     THEN [ret |-> ret, err |-> NilError]
     ELSE IF dec.err.kind # "nil"
     THEN [ret |-> NilRet, err |-> dec.err]
     ELSE [ret |-> dec.ret, err |-> NilError]

\* the classification of (res, err) shared by every Do: 304, error, non-2xx,
\* then the decoding of a 2xx response
classify(c, res, err, drained) ==
  LET ret == [nil |-> FALSE, HTTPStatusCode |-> res.status, Header |-> res.header,
              NextPageToken |-> <<>>]
      dec == DecodeResponse(c, ret, res, drained)
  IN IF ~res.nil /\ res.status = 304
     THEN [ret |-> NilRet, err |-> NotModifiedError(res)]
     ELSE IF err.kind # "nil"
     THEN [ret |-> NilRet, err |-> err]
     ELSE IF res.status > 299 \/ res.status < 200
     THEN [ret |-> NilRet, err |-> createHTTPError(res, drained)]
     ELSE IF ~CallSpec[c].decode
     THEN [ret |-> ret, err |-> NilError]
     ELSE IF dec.err.kind # "nil"
     THEN [ret |-> NilRet, err |-> dec.err]
     ELSE [ret |-> dec.ret, err |-> NilError]

\* Do after r == c.doRequest("json").  A call type that drains the body
\* dereferences res before testing it, which panics on a nil res, and
\* overwrites err with the result of the read.
DoAfter(c, r) ==
  LET drains == CallSpec[c].drain
      cl == classify(c, r.res, IF drains THEN NilError ELSE r.err, drains)
  IN IF r.exit \/ (drains /\ r.res.nil)
     THEN [ret |-> NilRet, err |-> NilError, panic |-> ~r.exit, exit |-> r.exit,
           cache |-> r.cache, requests |-> r.requests, params |-> r.params,
           lookup |-> r.lookup]
     ELSE [ret |-> cl.ret, err |-> cl.err, panic |-> FALSE, exit |-> FALSE,
           cache |-> r.cache, requests |-> r.requests, params |-> r.params,
           lookup |-> r.lookup]

\* c.Do() of call type c: [ret, err, panic, exit, cache, requests, params, lookup]
Do(c, name, params, cache, lk, mo) == DoAfter(c, doRequest(c, name, params, cache, lk, mo))

(***************************************************************************)
(* Scenario: one caller building calls and invoking Do, one after another  *)
(***************************************************************************)
MaxCalls == 2

NoOutcome == [kind |-> "none", status |-> 0, header |-> "", body |-> Body("garbage", NoToken)]

\* the (region, registry) a resource name resolves to for call type c, or none
PairOfMatch(c, matches) ==
  IF CallSpec[c].disabled \/ CallSpec[c].tmpl = "none" \/ ~matches.ok THEN {}
  ELSE {<<matches.values[LocationVar], matches.values[RegistryVar]>>}

PairOf(c, name) == PairOfMatch(c, CallMatch(c, name))

\* the answers of an endpoint that may be asked, or the mark of one that is not
OrNoOutcome(outcomes) == IF outcomes = {} THEN {NoOutcome} ELSE outcomes

\* the answers the lookup endpoint may give to the lookup this call would issue
LookupOutcomesOf(c, name) ==
  OrNoOutcome(UNION {LookupOutcomes(pair) : pair \in PairOf(c, name)})

\* the answers the webhook endpoint may give to call type c
MainOutcomesOf(c) == IF CallSpec[c].disabled THEN {NoOutcome} ELSE MainOutcomes

\* a call builder: state is "none", "built" (constructed, Do not yet invoked) or
\* "done" (Do returned, panicked or ended the process); the fields after params
\* record what Do did
CallRecord(c, name, params, state) ==
  [type |-> c, name |-> name, params |-> params, state |-> state,
   ret |-> NilRet, err |-> NilError, requests |-> <<>>, lookup |-> "none",
   lk |-> NoOutcome, mo |-> NoOutcome]

NoCall == CallRecord("", <<>>, NoParams, "none")

SvcInit ==
  /\ RegistryUserCache = EmptyMap
  /\ proc = "running"
  /\ lookupCount = [pair \in Pairs |-> 0]
  /\ calls = 0
  /\ call = NoCall

\* the process after a Do: ended by log.Fatalln, crashed by a panic, or running
ProcAfter(r) == IF r.exit THEN "fatal" ELSE IF r.panic THEN "panic" ELSE "running"

\* the requests of kind `kind` among reqs
RequestsOfKind(reqs, kind) == SelectSeq(reqs, LAMBDA q : q.kind = kind)

\* one of the constructors: r.Get(name), r.List(parent), ...
SvcNewCall ==
  /\ proc = "running"
  /\ call.state # "built"
  /\ calls < MaxCalls
  /\ \E c \in CallTypes, name \in Names :
       call' = CallRecord(c, name, NewCallParams(c, name), "built")
  /\ calls' = calls + 1
  /\ UNCHANGED <<RegistryUserCache, proc, lookupCount>>
  /\ UNCHANGED <<ptVars, pgVars, concVars>>

\* what a call builder records of a Do that did r, the endpoints answering lk, mo
CallDone(cb, r, lk, mo) ==
  LET issued == RequestsOfKind(r.requests, "lookup") # <<>>
      sent == RequestsOfKind(r.requests, "main")
  IN [cb EXCEPT !.state = "done", !.params = r.params, !.ret = r.ret, !.err = r.err,
                !.requests = r.requests, !.lookup = r.lookup,
                !.lk = IF issued THEN lk ELSE NoOutcome,
                !.mo = IF sent = <<>> THEN NoOutcome
                       ELSE IF HasScheme(sent[1].url) THEN mo ELSE TransportErr]

\* the lookups counted so far and the one the Do that did r issued, if any
CountLookups(count, r, c, name) ==
  IF RequestsOfKind(r.requests, "lookup") = <<>> THEN count
  ELSE [pair \in Pairs |-> IF pair \in PairOf(c, name) THEN count[pair] + 1 ELSE count[pair]]

\* c.Do() on the call built last; lk and mo are what the lookup endpoint and
\* the webhook endpoint answer if asked
SvcDo ==
  /\ proc = "running"
  /\ call.state = "built"
  /\ \E lk \in LookupOutcomesOf(call.type, call.name), mo \in MainOutcomesOf(call.type) :
       \E r \in {Do(call.type, call.name, call.params, RegistryUserCache, lk, mo)} :
          /\ RegistryUserCache' = r.cache
          /\ proc' = ProcAfter(r)
          /\ lookupCount' = CountLookups(lookupCount, r, call.type, call.name)
          /\ call' = CallDone(call, r, lk, mo)
  /\ UNCHANGED calls
  /\ UNCHANGED <<ptVars, pgVars, concVars>>

(***************************************************************************)
(* PageToken and Pages of the list calls                                   *)
(***************************************************************************)
\* c.PageToken(pageToken): c.urlParams_.Set("pageToken", pageToken)
PageToken(params, pageToken) == URLParamsSet(params, "pageToken", pageToken)

\* the deferred call of Pages with its argument left unused: nothing is reset
PagesDeferredKeep(params, saved) == params

\* defer c.PageToken(c.urlParams_.Get("pageToken")): saved is the argument,
\* evaluated when Pages is entered; the call runs when Pages is left
PagesDeferred(params, saved) == PageToken(params, saved)

\* the body of the loop of Pages without the token of the page carried over
PagesAfterCallbackStale(params, x, ferr) ==
  IF ferr # "nil" THEN [return |-> TRUE, result |-> ferr, params |-> params]
  ELSE IF x.NextPageToken = <<>> THEN [return |-> TRUE, result |-> "nil", params |-> params]
  ELSE [return |-> FALSE, result |-> "none", params |-> params]

\* the body of the loop of Pages once Do returned page x and the callback f
\* returned ferr: [return, result, params]
PagesAfterCallback(params, x, ferr) ==
  IF ferr # "nil" THEN [return |-> TRUE, result |-> ferr, params |-> params]
  ELSE IF x.NextPageToken = <<>> THEN [return |-> TRUE, result |-> "nil", params |-> params]
  ELSE [return |-> FALSE, result |-> "none", params |-> PageToken(params, x.NextPageToken)]

(***************************************************************************)
(* Scenario: Pages on a list call, page by page, then once more            *)
(***************************************************************************)
MaxPages == 3

MaxTraversals == 2

\* the call types that have Pages
ListCalls == {c \in CallTypes : CallSpec[c].paged}

\* parents handed to the List constructors: a location, a registry and a name
\* the registry template does not accept
PgNames ==
  { LocationName(<<"a">>), RegistryName(<< <<"a">>, <<"c">> >>),
    DeviceName(<< <<"a">>, <<"c">> >>) }

\* nextPageToken of a served page: absent, the JSON string "42", the JSON
\* number 42, the JSON number 7
PageTokens == {NoToken, StringToken(<<"4", "2">>), NumberToken(42), NumberToken(7)}

\* the token a caller may set with PageToken before Pages
InitialTokens == { <<"7">> }

\* answers of the webhook endpoint to a list request; last tells that the
\* listing has no page after this one
PageOutcomes(last) ==
  { Response(200, Body("object", tok)) : tok \in IF last THEN {NoToken} ELSE PageTokens }
    \cup { TransportErr, Response(200, Body("garbage", NoToken)),
           Response(304, Body("garbage", NoToken)), Response(404, EnvelopeBody) }

\* the value of parameter key in an encoded query, as a set: empty when the
\* query does not carry the parameter
QueryGet(query, key) == {query[i][2] : i \in {j \in 1..Len(query) : query[j][1] = key}}

\* a list call and its traversal.  state: "none", "built", "do" (Pages is about
\* to call Do), "callback" (Do returned page x, f not yet called), "returned",
\* "panicked", "exited".  entry, saved: urlParams_ and Get("pageToken") when
\* Pages was entered.  served, fetched, requests, callbacks: the answers of the
\* webhook endpoint, the pages Do returned, the main requests and the calls
\* of f (page and result), of the traversal in progress.  first: the first main request of each
\* finished traversal; set: whether PageToken was called before the first Pages.
NoPages ==
  [state |-> "none", type |-> "", name |-> <<>>, params |-> NoParams,
   entry |-> NoParams, saved |-> <<>>, x |-> NilRet, result |-> "none",
   served |-> <<>>, fetched |-> <<>>, requests |-> <<>>, callbacks |-> <<>>,
   traversal |-> 0, first |-> <<>>, set |-> FALSE]

PgInit == pg = NoPages


\* r.List(parent) of one of the list services
PgNewCall ==
  /\ proc = "running"
  /\ pg.state = "none"
  /\ \E c \in ListCalls, name \in PgNames :
       pg' = [NoPages EXCEPT !.state = "built", !.type = c, !.name = name,
                             !.params = NewCallParams(c, name)]
  /\ UNCHANGED <<ptVars, svcVars, concVars>>

\* c.PageToken(t) on the fresh call
PgPageToken ==
  /\ proc = "running"
  /\ pg.state = "built"
  /\ ~pg.set
  /\ \E t \in InitialTokens :
       pg' = [pg EXCEPT !.params = PageToken(pg.params, t), !.set = TRUE]
  /\ UNCHANGED <<ptVars, svcVars, concVars>>

\* c.Pages(ctx, f) is entered: the argument of the deferred PageToken is taken
PgPages ==
  /\ proc = "running"
  /\ pg.state \in {"built", "returned"}
  /\ pg.traversal < MaxTraversals
  /\ pg' = [pg EXCEPT !.state = "do", !.entry = pg.params,
                      !.saved = URLParamsGet(pg.params, "pageToken"),
                      !.x = NilRet, !.result = "none", !.served = <<>>,
                      !.fetched = <<>>, !.requests = <<>>, !.callbacks = <<>>,
                      !.traversal = pg.traversal + 1]
  /\ UNCHANGED <<ptVars, svcVars, concVars>>

\* the first main request of a traversal, as a set of at most one query
FirstQuery(requests) == IF requests = <<>> THEN {} ELSE {requests[1].query}

\* the traversal record when Pages is left with result: the deferred PageToken runs
PgLeave(p, state, result) ==
  [p EXCEPT !.state = state, !.result = result,
            !.params = PagesDeferred(p.params, p.saved),
            !.first = Append(p.first, FirstQuery(p.requests))]

\* the traversal record with the request of the Do that did r, and its answer
PgSent(p, r, mo) ==
  LET sent == RequestsOfKind(r.requests, "main")
  IN [p EXCEPT !.params = r.params,
               !.requests = p.requests \o sent,
               !.served = IF sent = <<>> THEN p.served
                          ELSE Append(p.served,
                                      IF HasScheme(sent[1].url) THEN mo ELSE TransportErr)]

\* Pages after x, err := c.Do(): the process ended, Do panicked, Do returned
\* an error, or page x goes to the callback
PgAfterDo(p1, r) ==
  IF r.exit THEN [p1 EXCEPT !.state = "exited"]
  ELSE IF r.panic THEN PgLeave(p1, "panicked", "panic")
  ELSE IF r.err.kind # "nil" THEN PgLeave(p1, "returned", r.err.kind)
  ELSE [p1 EXCEPT !.state = "callback", !.x = r.ret,
                  !.fetched = Append(p1.fetched, r.ret)]

\* x, err := c.Do() inside Pages; on an error Pages returns it
PgDo ==
  /\ proc = "running"
  /\ pg.state = "do"
  /\ \E lk \in LookupOutcomesOf(pg.type, pg.name),
        mo \in PageOutcomes(Len(pg.requests) + 1 >= MaxPages) :
       \E r \in {Do(pg.type, pg.name, pg.params, RegistryUserCache, lk, mo)} :
          /\ RegistryUserCache' = r.cache
          /\ proc' = ProcAfter(r)
          /\ lookupCount' = CountLookups(lookupCount, r, pg.type, pg.name)
          /\ pg' = PgAfterDo(PgSent(pg, r, mo), r)
  /\ UNCHANGED <<calls, call, ptVars, concVars>>

\* Pages after f(x) and the test of the token: a is what the loop body decided
PgAfterCallback(p1, a) ==
  IF a.return THEN PgLeave(p1, "returned", a.result) ELSE [p1 EXCEPT !.state = "do"]

\* what the callback f may return
CallbackResults == {"nil", "callbackErr"}

\* err := f(x), then the test of x.NextPageToken
PgCallback ==
  /\ proc = "running"
  /\ pg.state = "callback"
  /\ \E ferr \in CallbackResults :
       \E a \in {PagesAfterCallback(pg.params, pg.x, ferr)} :
          pg' = PgAfterCallback([pg EXCEPT !.callbacks =
                                             Append(pg.callbacks, [x |-> pg.x, ferr |-> ferr]),
                                           !.params = a.params], a)
  /\ UNCHANGED <<ptVars, svcVars, concVars>>


(***************************************************************************)
(* Scenario: goroutines resolving credentials on one service at once.      *)
(* RegistryUserCache is a plain map with no lock around it; a read or a    *)
(* write that overlaps a write of another goroutine is a data race, which  *)
(* the Go runtime may let pass or end with "fatal error: concurrent map    *)
(* writes" / "concurrent map read and map write".                          *)
(***************************************************************************)
NumGoroutines == 2

Goroutines == 1..NumGoroutines

\* a goroutine inside GetRegistryCredentials: pc is "idle", "check" (before the
\* test of the cache), "lookup" (before s.client.Do), "store" (before the map
\* write), "storing" (inside the map write) or "done"; credentials is the local
\* it will store, ret what it returned
IdleGoroutine ==
  [pc |-> "idle", pair |-> << <<>>, <<>> >>, credentials |-> ZeroCredentials,
   ret |-> ZeroCredentials]

ConcInit ==
  /\ gor = [g \in Goroutines |-> IdleGoroutine]
  /\ mapWriter = {}

\* go GetRegistryCredentials(registry, region, s)
ConcStart(g) ==
  /\ proc = "running"
  /\ gor[g].pc = "idle"
  /\ \E pair \in Pairs : gor' = [gor EXCEPT ![g].pc = "check", ![g].pair = pair]
  /\ UNCHANGED <<mapWriter, ptVars, svcVars, pgVars>>

\* if s.RegistryUserCache[cacheKey] != nil { return s.RegistryUserCache[cacheKey] }
ConcCheck(g) ==
  /\ proc = "running"
  /\ gor[g].pc = "check"
  /\ LET key == cacheKey(gor[g].pair[1], gor[g].pair[2])
     IN gor' = IF key \in DOMAIN RegistryUserCache
               THEN [gor EXCEPT ![g].pc = "done", ![g].ret = RegistryUserCache[key]]
               ELSE [gor EXCEPT ![g].pc = "lookup"]
  /\ UNCHANGED <<mapWriter, ptVars, svcVars, pgVars>>

\* the read of the map overlaps a write of another goroutine and the runtime
\* notices: the process dies
ConcReadFault(g) ==
  /\ proc = "running"
  /\ gor[g].pc = "check"
  /\ mapWriter \ {g} # {}
  /\ proc' = "mapFault"
  /\ UNCHANGED <<RegistryUserCache, lookupCount, calls, call, gor, mapWriter, ptVars, pgVars>>

\* resp, err := s.client.Do(req) ... json.Unmarshal(body, &credentials)
ConcLookup(g) ==
  /\ proc = "running"
  /\ gor[g].pc = "lookup"
  /\ \E lk \in LookupOutcomes(gor[g].pair) :
       /\ proc' = IF lk.kind \in {"transportErr", "readErr"} THEN "fatal" ELSE "running"
       /\ gor' = [gor EXCEPT ![g].pc = "store",
                             ![g].credentials = UnmarshalCredentials(lk.body)]
  /\ lookupCount' = [lookupCount EXCEPT ![gor[g].pair] = @ + 1]
  /\ UNCHANGED <<RegistryUserCache, calls, call, mapWriter, ptVars, pgVars>>

\* s.RegistryUserCache[cacheKey] = &credentials begins
ConcStoreBegin(g) ==
  /\ proc = "running"
  /\ gor[g].pc = "store"
  /\ gor' = [gor EXCEPT ![g].pc = "storing"]
  /\ mapWriter' = mapWriter \cup {g}
  /\ UNCHANGED <<ptVars, svcVars, pgVars>>

\* the write of the map overlaps a write of another goroutine and the runtime
\* notices: the process dies
ConcWriteFault(g) ==
  /\ proc = "running"
  /\ gor[g].pc = "store"
  /\ mapWriter \ {g} # {}
  /\ proc' = "mapFault"
  /\ UNCHANGED <<RegistryUserCache, lookupCount, calls, call, gor, mapWriter, ptVars, pgVars>>

\* the map write ends; return &credentials
ConcStoreEnd(g) ==
  /\ proc = "running"
  /\ gor[g].pc = "storing"
  /\ RegistryUserCache' = MapSet(RegistryUserCache,
                                 cacheKey(gor[g].pair[1], gor[g].pair[2]),
                                 gor[g].credentials)
  /\ gor' = [gor EXCEPT ![g].pc = "done", ![g].ret = gor[g].credentials]
  /\ mapWriter' = mapWriter \ {g}
  /\ UNCHANGED <<proc, lookupCount, calls, call, ptVars, pgVars>>

(***************************************************************************)
(* Specifications                                                          *)
(***************************************************************************)
Init == PTInit /\ SvcInit /\ PgInit /\ ConcInit

\* the template engine on its own
NextPT == PTNew \/ PTMatch \/ PTRender \/ PTRenderWith

SpecPT == Init /\ [][NextPT]_vars

\* one caller, one call after the other
Next == SvcNewCall \/ SvcDo

Spec == Init /\ [][Next]_vars

\* one caller following a list page by page
NextPages == PgNewCall \/ PgPageToken \/ PgPages \/ PgDo \/ PgCallback

SpecPages == Init /\ [][NextPages]_vars

\* several goroutines resolving credentials
NextConc ==
  \E g \in Goroutines :
    \/ ConcStart(g)
    \/ ConcCheck(g)
    \/ ConcReadFault(g)
    \/ ConcLookup(g)
    \/ ConcStoreBegin(g)
    \/ ConcWriteFault(g)
    \/ ConcStoreEnd(g)

SpecConc == Init /\ [][NextConc]_vars


(***************************************************************************)
(* Properties of the template engine                                       *)
(***************************************************************************)
\* the template text has two '*' in a row
HasDoubleStar(t) == \E i \in 1..(Len(t) - 1) : t[i] = "*" /\ t[i + 1] = "*"

\* C1: for every template NewPathTemplate returned that contains no `**` and
\* every path on which Match succeeded, Render of the bindings Match returned
\* succeeds and gives back exactly the path.
C1_RoundTrip ==
  (ptpc = "rendered" /\ ~HasDoubleStar(template))
    => (rendered.ok /\ rendered.built = path)

(***************************************************************************)
(* Properties of the credential cache and of Do, one caller                *)
(***************************************************************************)
\* the cache key of the (region, registry) a call resolves, as a set
KeysOf(c, name) == {cacheKey(pair[1], pair[2]) : pair \in PairOf(c, name)}

\* C2: sequential resolutions of one (region, registry) pair issue the remote
\* lookup at most once; a cache entry, once written, is never changed or
\* removed, and a resolution that finds it issues no lookup and authenticates
\* the request with exactly the cached credentials.
C2_LookupOnce ==
  [][ /\ \A pair \in Pairs : lookupCount'[pair] <= 1
      /\ \A k \in DOMAIN RegistryUserCache :
           k \in DOMAIN RegistryUserCache' /\ RegistryUserCache'[k] = RegistryUserCache[k]
      /\ \A pair \in Pairs :
           cacheKey(pair[1], pair[2]) \in DOMAIN RegistryUserCache
             => lookupCount'[pair] = lookupCount[pair]
      /\ (call.state = "built" /\ call'.state = "done")
           => \A k \in KeysOf(call.type, call.name) \cap DOMAIN RegistryUserCache :
                /\ RequestsOfKind(call'.requests, "lookup") = <<>>
                /\ \A i \in DOMAIN call'.requests :
                     /\ call'.requests[i].token = RegistryUserCache[k].Token
                     /\ call'.requests[i].url =
                          WebhookURL(RegistryUserCache[k].Url, RegistryUserCache[k].SystemKey,
                                     CallSpec[call.type].endpoint)
    ]_vars

\* a second call resolved a pair the first call had looked up, found it in the
\* cache and sent its request
C2_Witness ==
  /\ calls = 2
  /\ call.state = "done"
  /\ call.lookup = "hit"
  /\ \E pair \in PairOf(call.type, call.name) : lookupCount[pair] = 1
  /\ RequestsOfKind(call.requests, "main") # <<>>

\* the lookup endpoint did not deliver credentials: no answer, an unreadable
\* body, or a body that is not JSON
FailedLookups == {TransportErr, ReadErr, Response(200, Body("garbage", NoToken))}

\* C4: when the credential lookup fails or returns unparsable data, Do hands
\* an error to its caller, the process keeps running, and no request is
\* authenticated as if credentials had been obtained.
C4_LookupFailureReported ==
  (call.state = "done" /\ call.lk \in FailedLookups)
    => /\ proc = "running"
       /\ call.err.kind # "nil"
       /\ RequestsOfKind(call.requests, "main") = <<>>

\* C5: for every call type and every outcome of doRequest, Do does not panic
\* and returns exactly one of a non-nil response and a non-nil error.
C5_ExactlyOne ==
  (call.state = "done" /\ proc # "fatal")
    => /\ proc # "panic"
       /\ call.ret.nil <=> (call.err.kind # "nil")

GoroutineKey(g) == cacheKey(gor[g].pair[1], gor[g].pair[2])

\* C3: goroutines resolving the same uncached key at once do not crash the
\* process on the cache, and once all of them returned the cache holds an
\* entry for the key.
C3_ConcurrentResolutions ==
  (\A g, h \in Goroutines : gor[g].pc # "idle" /\ GoroutineKey(g) = GoroutineKey(h))
    => /\ proc # "mapFault"
       /\ (\A g \in Goroutines : gor[g].pc = "done")
            => \A g \in Goroutines : GoroutineKey(g) \in DOMAIN RegistryUserCache

(***************************************************************************)
(* Properties of Pages                                                     *)
(***************************************************************************)
\* a served answer that is a page of a listing
IsPage(mo) == mo.kind = "response" /\ mo.status = 200 /\ mo.body.form = "object"

\* the text of a continuation token as the wire carries it
TokenText(tok) == IF tok.type = "number" THEN FormatInt(tok.num) ELSE tok.str

\* C7: a page whose nextPageToken is the JSON number n and a page whose
\* nextPageToken is the JSON string "n" both make Do succeed with
\* NextPageToken = "n", and Pages goes on with pageToken = "n" either way.
C7_TokenNormalized ==
  \A i \in DOMAIN pg.served :
    (IsPage(pg.served[i]) /\ pg.served[i].body.nextPageToken.type \in {"number", "string"})
      => LET text == TokenText(pg.served[i].body.nextPageToken)
         IN /\ Len(pg.fetched) >= i
            /\ pg.fetched[i].NextPageToken = text
            /\ i < Len(pg.requests) => QueryGet(pg.requests[i + 1].query, "pageToken") = {text}
            /\ (i = Len(pg.served) /\ pg.state = "do")
                 => URLParamsGet(pg.params, "pageToken") = text

\* the webhook endpoint served pages only, the last of them without a
\* continuation token, and the callback returned nil each time it was called
GoodListing ==
  /\ pg.served # <<>>
  /\ \A i \in DOMAIN pg.served : IsPage(pg.served[i])
  /\ pg.served[Len(pg.served)].body.nextPageToken = NoToken
  /\ \A i \in DOMAIN pg.callbacks : pg.callbacks[i].ferr = "nil"

\* C8: on a listing whose last page has no continuation token, with a callback
\* that returns nil, Pages returns nil after the last page, asks for nothing
\* after it, and has issued as many requests as there were pages.
C8_PagesTerminates ==
  GoodListing
    => /\ pg.state \in {"callback", "returned"}
       /\ pg.state = "returned"
            => /\ pg.result = "nil"
               /\ Len(pg.requests) = Len(pg.served)
               /\ Len(pg.callbacks) = Len(pg.served)


\* C9: Pages calls f once for every page Do returned, in the order of the
\* fetches; every request after the first carries as pageToken the
\* NextPageToken of the page fetched just before it; an error returned by f is
\* what Pages returns, and no request follows it.
C9_PagesProtocol ==
  /\ Len(pg.callbacks) = Len(pg.fetched) - (IF pg.state = "callback" THEN 1 ELSE 0)
  /\ \A i \in DOMAIN pg.callbacks : pg.callbacks[i].x = pg.fetched[i]
  /\ \A i \in 2..Len(pg.requests) :
       /\ i - 1 <= Len(pg.fetched)
       /\ QueryGet(pg.requests[i].query, "pageToken") = {pg.fetched[i - 1].NextPageToken}
  /\ \A i \in DOMAIN pg.callbacks :
       pg.callbacks[i].ferr # "nil"
         => /\ i = Len(pg.callbacks)
            /\ pg.state = "returned"
            /\ pg.result = pg.callbacks[i].ferr
            /\ Len(pg.requests) = i

\* a traversal fetched two pages, the second request carrying the token of the
\* first page, and the callback stopped it at the second page
C9_Witness ==
  /\ pg.state = "returned"
  /\ Len(pg.fetched) = 2
  /\ pg.fetched[1].NextPageToken # <<>>
  /\ Len(pg.callbacks) = 2
  /\ pg.callbacks[2].ferr = "callbackErr"
  /\ pg.result = "callbackErr"

\* the pageToken parameter as the query shows it: absent, or present with a value
PageTokenState(params) ==
  IF "pageToken" \in DOMAIN params THEN <<TRUE, params["pageToken"]>> ELSE <<FALSE, <<>> >>

\* C10 as stated: when Pages returns, the pageToken parameter is in the state
\* it had when Pages was invoked, and a second traversal issues the same first
\* request, with the same encoded query, as the first traversal.
C10_TokenStateRestored ==
  /\ pg.state = "returned" => PageTokenState(pg.params) = PageTokenState(pg.entry)
  /\ (pg.traversal >= 2 /\ pg.requests # <<>> /\ pg.first[1] # {})
       => pg.first[1] = {pg.requests[1].query}

\* C10 amended: when Pages is left, Get("pageToken") gives the value it gave
\* when Pages was invoked, and the parameter is then always present; a later
\* traversal issues the first request of the first traversal when PageToken
\* had been called before Pages, and otherwise that request with an empty
\* pageToken parameter added to its query.
C10_TokenValueRestored ==
  /\ pg.state \in {"returned", "panicked"}
       => /\ "pageToken" \in DOMAIN pg.params
          /\ URLParamsGet(pg.params, "pageToken") = URLParamsGet(pg.entry, "pageToken")
  /\ (pg.traversal >= 2 /\ pg.requests # <<>> /\ pg.first[1] # {})
       => LET q2 == pg.requests[1].query
          IN IF pg.set THEN pg.first[1] = {q2}
             ELSE /\ QueryGet(q2, "pageToken") = { <<>> }
                  /\ pg.first[1] = {SelectSeq(q2, LAMBDA kv : kv[1] # "pageToken")}

\* a second traversal on a call whose pageToken had been set went two pages
\* far and returned
C10_Witness ==
  /\ pg.state = "returned"
  /\ pg.traversal = 2
  /\ pg.set
  /\ Len(pg.fetched) >= 2
  /\ pg.first[1] # {}

(***************************************************************************)
(* Properties of the error paths of Do                                     *)
(***************************************************************************)
\* the webhook endpoint answered with a status that is neither 2xx nor 304 and
\* the error envelope as body
EnvelopeAnswer(mo) ==
  /\ mo.kind = "response"
  /\ mo.status \notin 200..299
  /\ mo.status # 304
  /\ mo.body.form = "envelope"

\* C11: for every call type, a non-2xx, non-304 response whose body is the
\* envelope {error: {code, message, status}} makes Do return an error whose
\* message carries that code, that message and that status.
C11_EnvelopeSurfaced ==
  (call.state = "done" /\ proc = "running" /\ EnvelopeAnswer(call.mo))
    => /\ call.ret.nil
       /\ call.err.kind = "http"
       /\ call.err.code = call.mo.body.code
       /\ call.err.message = call.mo.body.message
       /\ call.err.status = call.mo.body.status

\* C12: a response with status 304 makes Do return a nil result and a
\* not-modified error value carrying the status code 304 and the response
\* headers; no other non-2xx status yields that value, and the not-modified
\* value is never one createHTTPError builds.
C12_NotModified ==
  (call.state = "done" /\ proc = "running" /\ call.mo.kind = "response")
    => /\ (call.mo.status = 304)
            => /\ call.ret.nil
               /\ call.err.kind = "notModified"
               /\ call.err.code = 304
               /\ call.err.header = call.mo.header
       /\ (call.mo.status # 304) => call.err.kind # "notModified"
       /\ call.err.kind = "notModified"
            => call.err # createHTTPError([nil |-> FALSE, status |-> call.mo.status,
                                           header |-> call.mo.header, body |-> call.mo.body],
                                          CallSpec[call.type].drain)

\* a Do answered with 304 returned the not-modified value with the headers
C12_Witness ==
  /\ call.state = "done"
  /\ proc = "running"
  /\ call.mo.kind = "response"
  /\ call.mo.status = 304
  /\ call.ret.nil
  /\ call.err.kind = "notModified"
  /\ call.err.header = "h"

\* the call has a path template and its resource name does not match it
NameMismatch(cb) ==
  /\ ~CallSpec[cb.type].disabled
  /\ CallSpec[cb.type].tmpl # "none"
  /\ ~CallMatch(cb.type, cb.name).ok

PathWildcardsWritten(t) ==
  Cardinality({ i \in 1..(Len(t) - 1) :
                  /\ t[i] = "*" /\ t[i + 1] = "*"
                  /\ (i = 1 \/ t[i - 1] \in {"/", "="})
                  /\ (i + 1 = Len(t) \/ t[i + 2] \in {"/", "}"}) })

\* C14: NewPathTemplate fails with a ParseError for every template that
\* contains two "**" segments, at top level or inside a binding.
C14_SecondPathWildcardRejected ==
  (ptpc # "init" /\ PathWildcardsWritten(template) >= 2)
    => /\ ~pt.ok
       /\ pt.err.Message # ""

\* the name written after the '{' at index i of template t
BindingNameAt(t, i) ==
  consumeUntil([s |-> t, pos |-> i + 1, nextVar |-> 0, seenName |-> {},
                seenPathWildcard |-> FALSE, err |-> ""]).lit

\* a binding written in full starts at index i of template t: a '{' with its
\* '}' after it
BindingAt(t, i) ==
  /\ t[i] = "{"
  /\ \E k \in (i + 1)..Len(t) :
       /\ t[k] = "}"
       /\ \A m \in (i + 1)..(k - 1) : t[m] \notin {"{", "}"}

\* template t writes the same variable name in two bindings
SameNameTwice(t) ==
  \E i, j \in 1..Len(t) :
    /\ i < j
    /\ BindingAt(t, i) /\ BindingAt(t, j)
    /\ BindingNameAt(t, i) = BindingNameAt(t, j)

\* C15: NewPathTemplate fails with a ParseError for every template in which
\* the same variable name is written in two bindings.
C15_DuplicateNameRejected ==
  (ptpc # "init" /\ SameNameTwice(template))
    => /\ ~pt.ok
       /\ pt.err.Message # ""

\* the parser as p.template() leaves it on template t
ParserAfter(t) == parseTemplate(NewParser(t)).p

\* the variable names the segments carry
SegmentNames(segments) == {segments[i].name : i \in 1..Len(segments)} \ {<<>>}

\* the bindings the parser has read: one per bare "*" or "**", for which it made
\* up a name, and one per "{name...}"
BindingsRead(p) == p.nextVar + Cardinality(p.seenName)

\* C16: in every template NewPathTemplate returns, two segments carry the
\* same variable name only if they come from the same binding: the bindings
\* read, written or auto-named, all have names of their own.
C16_NamesDistinct ==
  (ptpc # "init" /\ pt.ok)
    => Cardinality(SegmentNames(pt.segments)) = BindingsRead(ParserAfter(template))

\* the parser read template t to its end
Consumed(t) == ParserAfter(t).pos = Len(t) + 1

\* a '{' of t with no '}' after it
Unterminated(t) ==
  \E i \in 1..Len(t) : t[i] = "{" /\ \A k \in (i + 1)..Len(t) : t[k] # "}"

\* t has an empty literal: t is empty, ends with '/' or has two '/' in a row
EmptyLiteral(t) ==
  \/ t = <<>>
  \/ t[Len(t)] = "/"
  \/ \E i \in 1..(Len(t) - 1) : t[i] = "/" /\ t[i + 1] = "/"

\* a '{' of t inside a binding that is still open
NestedBinding(t) ==
  \E i, j \in 1..Len(t) :
    /\ i < j
    /\ t[i] = "{" /\ t[j] = "{"
    /\ \A k \in (i + 1)..(j - 1) : t[k] # "}"

\* C17: NewPathTemplate returns a ParseError for every template string that is
\* not derivable from the template grammar: an unterminated '{', an empty
\* literal, a nested binding, or characters left over after the last parsed
\* segment; a template is returned only when the whole string was consumed.
C17_MalformedRejected ==
  (ptpc # "init" /\ pt.ok)
    => /\ Consumed(template)
       /\ ~Unterminated(template)
       /\ ~EmptyLiteral(template)
       /\ ~NestedBinding(template)

(***************************************************************************)
(* Properties of Match                                                     *)
(***************************************************************************)
\* the template has a "**" segment
HasPathWildcard(segments) ==
  \E i \in 1..Len(segments) : segments[i].matcher = "pathWildcard"

\* C18: for a template with no "**", Match returns an error and no bindings
\* on every path that has more '/'-separated segments than the template has
\* segments.
C18_TrailingPathRejected ==
  (/\ ptpc \in {"matched", "rendered"}
   /\ ~HasPathWildcard(pt.segments)
   /\ Len(Split(path, "/")) > Len(pt.segments))
    => /\ ~matched.ok
       /\ matched.values = EmptyMap

\* "a/{x}" against "a/b/a": both segments match and a segment is left over
C18_Witness ==
  /\ ptpc = "matched"
  /\ template = <<"a", "/", "{", "x", "}">>
  /\ path = <<"a", "/", "b", "/", "a">>
  /\ ~matched.ok

\* the last '/'-separated piece of template t
LastPiece(t) == LET ps == Split(t, "/") IN ps[Len(ps)]

\* the last piece of t is a "**" of its own: bare, or alone in a binding
\* "{x=**}"
EndsWithBoundPathWildcard(t) ==
  LET lp == LastPiece(t)
  IN \/ lp = <<"*", "*">>
     \/ /\ Len(lp) >= 6
        /\ lp[1] = "{"
        /\ SubSeq(lp, Len(lp) - 3, Len(lp)) = <<"=", "*", "*", "}">>
        /\ \A i \in 2..(Len(lp) - 4) : lp[i] \notin StopRunes

\* C19: for a template whose last segment is a "**" bound to variable x,
\* Match binds x to the '/'-join of all path segments that remain after the
\* preceding template segments are consumed; that is at least one segment,
\* and Match fails when no segment remains for it.
C19_TrailingWildcardBinding ==
  (/\ ptpc \in {"matched", "rendered"}
   /\ EndsWithBoundPathWildcard(template)
   /\ pt.segments[Len(pt.segments)].matcher = "pathWildcard")
    => LET paths == Split(path, "/")
           n == Len(pt.segments)
           x == pt.segments[n].name
       IN /\ matched.ok => Len(paths) >= n
          /\ matched.ok => x \in DOMAIN matched.values
          /\ matched.ok => matched.values[x] = Join(SubSeq(paths, n, Len(paths)), "/")
          /\ (Len(paths) < n) => ~matched.ok

(***************************************************************************)
(* Properties of the requests of Do                                        *)
(***************************************************************************)
DeviceOperations ==
  {"DevicesCreate", "DevicesDelete", "DevicesGet", "DevicesList",
   "DevicesModifyCloudToDeviceConfig", "DevicesPatch", "DevicesSendCommandToDevice"}

\* the endpoint name of the resource family call type c belongs to
EndpointOfFamily(c) ==
  IF c = "DevicesConfigVersionsList" THEN EndpointConfigVersions
  ELSE IF c = "DevicesStatesList" THEN EndpointStates
  ELSE IF c \in DeviceOperations THEN EndpointDevices
  ELSE EndpointCloudiot

\* request req of call type c goes to the webhook endpoint of c's family with
\* the Url, the SystemKey and the Token of the one record rec
TargetsWebhook(c, req, rec) ==
  /\ req.url = WebhookURL(rec.Url, rec.SystemKey, EndpointOfFamily(c))
  /\ req.token = rec.Token

\* the credential records of the service: its own and the cached ones
CredentialRecords ==
  {[SystemKey |-> ServiceAccountCredentials.SystemKey,
    Token |-> ServiceAccountCredentials.Token,
    Url |-> ServiceAccountCredentials.Url]}
    \cup {RegistryUserCache[k] : k \in DOMAIN RegistryUserCache}

\* C20 as stated: every request issued by Do targets
\* <Url>/api/v/4/webhook/execute/<SystemKey>/<endpoint of the family>, Url and
\* SystemKey taken from the credentials record whose Token is sent.
C20_EveryRequestWebhook ==
  (call.state = "done")
    => \A i \in 1..Len(call.requests) :
         \E rec \in CredentialRecords : TargetsWebhook(call.type, call.requests[i], rec)

\* C20 amended: every request Do builds for the operation itself targets the
\* webhook endpoint of its family with Url, SystemKey and Token of one record:
\* the service's own credentials for a call without template, the cached
\* record of the registry otherwise.  The credential lookup a cache miss
\* triggers inside Do is a request of its own, to
\* <Url>/api/v/1/code/<SystemKey>/getRegistryCredentials with the Token of the
\* service's own credentials.
C20_RequestTargets ==
  (call.state = "done")
    => LET mains == RequestsOfKind(call.requests, "main")
           lookups == RequestsOfKind(call.requests, "lookup")
       IN /\ \A i \in 1..Len(mains) :
               IF CallSpec[call.type].tmpl = "none"
               THEN TargetsWebhook(call.type, mains[i], ServiceAccountCredentials)
               ELSE \A k \in KeysOf(call.type, call.name) :
                      /\ k \in DOMAIN RegistryUserCache
                      /\ TargetsWebhook(call.type, mains[i], RegistryUserCache[k])
          /\ \A i \in 1..Len(lookups) :
               /\ lookups[i].url = LookupURL(ServiceAccountCredentials.Url,
                                             ServiceAccountCredentials.SystemKey)
               /\ lookups[i].token = ServiceAccountCredentials.Token

\* a device-state listing sent with the credentials a lookup just delivered
C20_Witness ==
  /\ call.state = "done"
  /\ call.type = "DevicesStatesList"
  /\ call.lookup = "miss"
  /\ call.err.kind = "nil"
  /\ Len(call.requests) = 2
  /\ call.requests[2].token = <<"t", "3">>
  /\ TargetsWebhook(call.type, call.requests[2],
                    RegistryUserCache[cacheKey(<<"a">>, <<"c">>)])

(***************************************************************************)
(* Properties of the disabled operations                                   *)
(***************************************************************************)
\* Pages entered on call builder cb, up to the return of its first Do, which
\* did r: the traversal record
PagesFirstDo(cb, r) ==
  PgAfterDo(PgSent([NoPages EXCEPT !.state = "do", !.type = cb.type, !.name = cb.name,
                                   !.params = cb.params, !.entry = cb.params,
                                   !.saved = URLParamsGet(cb.params, "pageToken"),
                                   !.traversal = 1],
                   r, NoOutcome),
            r)

\* C21: every disabled operation returns from Do a nil result and the
\* "Not implemented" error, for every name and with an empty or a filled
\* cache, without issuing any HTTP request and without touching the
\* credential cache; Pages on the group device List returns that error from
\* its first Do without invoking the callback.
C21_DisabledNotImplemented ==
  [][ (call.state = "built" /\ call'.state = "done" /\ CallSpec[call.type].disabled)
        => /\ call'.ret.nil
           /\ call'.err.kind = "notImplemented"
           /\ call'.requests = <<>>
           /\ call'.lookup = "none"
           /\ RegistryUserCache' = RegistryUserCache
           /\ lookupCount' = lookupCount
           /\ proc' = "running"
           /\ CallSpec[call.type].paged
                => LET r == Do(call.type, call.name, call.params, RegistryUserCache,
                               NoOutcome, NoOutcome)
                       p == PagesFirstDo(call, r)
                   IN /\ r.cache = RegistryUserCache
                      /\ p.state = "returned"
                      /\ p.result = "notImplemented"
                      /\ p.callbacks = <<>>
                      /\ p.fetched = <<>>
                      /\ p.requests = <<>>
    ]_vars

\* the group device List returned "Not implemented" while the cache held the
\* credentials an earlier call had fetched
C21_Witness ==
  /\ call.state = "done"
  /\ call.type = "GroupsDevicesList"
  /\ call.err.kind = "notImplemented"
  /\ call.ret.nil
  /\ call.requests = <<>>
  /\ RegistryUserCache # EmptyMap

(***************************************************************************)
(* Properties of the credentials a call uses                               *)
(***************************************************************************)
\* the implemented calls whose resource name has no registry component
ProjectLevelCalls == {"RegistriesCreate", "RegistriesList"}

\* Match of the template a call on a registry or on a device is expected to
\* use, on its resource name
ExpectedMatch(cb) ==
  IF CallSpec[cb.type].tmpl = "device" THEN DeviceMatches[cb.name] ELSE RegistryMatches[cb.name]

\* C22: every implemented call whose resource name contains a registry matches
\* the name against its path template and authenticates the request with the
\* cached credentials of the (location, registry) extracted from it; only
\* registry Create and List use the top-level credentials of the service.
C22_RegistryCredentials ==
  (call.state = "done" /\ proc = "running" /\ ~CallSpec[call.type].disabled)
    => LET mains == RequestsOfKind(call.requests, "main")
           m == ExpectedMatch(call)
       IN IF call.type \in ProjectLevelCalls
          THEN /\ call.lookup = "none"
               /\ \A i \in 1..Len(mains) : mains[i].token = ServiceAccountCredentials.Token
          ELSE IF ~m.ok
          THEN call.err.kind = "match" /\ call.requests = <<>>
          ELSE LET k == cacheKey(m.values[LocationVar], m.values[RegistryVar])
               IN /\ call.lookup \in {"hit", "miss"}
                  /\ k \in DOMAIN RegistryUserCache
                  /\ \A i \in 1..Len(mains) :
                       /\ mains[i].token = RegistryUserCache[k].Token
                       /\ mains[i].url = WebhookURL(RegistryUserCache[k].Url,
                                                    RegistryUserCache[k].SystemKey,
                                                    CallSpec[call.type].endpoint)

(***************************************************************************)
(* Properties of the decoding of responses                                 *)
(***************************************************************************)
\* the webhook endpoint answered the call with a 2xx status
SuccessAnswer(mo) == mo.kind = "response" /\ mo.status \in 200..299

\* C23: for every implemented call type, a 2xx response whose body is
\* well-formed JSON of the declared response type makes Do return the decoded
\* response, with the status code and the headers of the response, and a nil
\* error; a 2xx response whose body cannot be decoded makes Do return an error.
C23_SuccessDecoded ==
  (call.state = "done" /\ proc = "running" /\ SuccessAnswer(call.mo))
    => /\ (call.mo.body.form = "object")
            => /\ call.err.kind = "nil"
               /\ ~call.ret.nil
               /\ call.ret.HTTPStatusCode = call.mo.status
               /\ call.ret.Header = call.mo.header
       /\ (call.mo.body.form = "garbage")
            => /\ call.err.kind # "nil"
               /\ call.ret.nil

(***************************************************************************)
(* Properties of createHTTPError                                           *)
(***************************************************************************)
\* the webhook endpoint answered with a status that is neither 2xx nor 304 and
\* a body that is valid JSON without the "error" object
ShapelessAnswer(mo) ==
  /\ mo.kind = "response"
  /\ mo.status \notin 200..299
  /\ mo.status # 304
  /\ mo.body.form = "emptyObject"

\* C24: createHTTPError returns a decode error, not a formatted domain error,
\* when the body of a non-2xx response is valid JSON that lacks the top-level
\* "error" object with code, message and status, e.g. {}.
C24_MissingEnvelopeIsDecodeError ==
  (call.state = "done" /\ proc = "running" /\ ShapelessAnswer(call.mo))
    => call.err.kind = "decode"

(***************************************************************************)
(* Properties of the path wildcard                                         *)
(***************************************************************************)
\* the index of the "**" segment
PathWildcardIndex(segments) ==
  CHOOSE i \in 1..Len(segments) : segments[i].matcher = "pathWildcard"

\* the path segments that go to segment k of a template of n segments with
\* its "**" at index i, when the path has m >= n segments: one each before the
\* "**", m - n + 1 for the "**", one each after it
PiecesFor(k, i, n, paths) ==
  LET m == Len(paths)
  IN IF k < i THEN <<paths[k]>>
     ELSE IF k = i THEN SubSeq(paths, i, i + m - n)
     ELSE <<paths[m - n + k]>>

RECURSIVE PiecesNamed(_, _, _, _, _)
\* the path segments that go to the segments named x from index k on, in order
PiecesNamed(x, k, i, segments, paths) ==
  IF k > Len(segments) THEN <<>>
  ELSE (IF segments[k].name = x THEN PiecesFor(k, i, Len(segments), paths) ELSE <<>>)
         \o PiecesNamed(x, k + 1, i, segments, paths)

\* C25: for a compiled template of n segments with "**" at index i, Match on
\* a path of m segments makes the "**" consume exactly m - n + 1 path
\* segments, leaving one path segment for each template segment after it;
\* Match fails whenever m < n.
C25_PathWildcardLength ==
  (ptpc \in {"matched", "rendered"} /\ HasPathWildcard(pt.segments))
    => LET segs == pt.segments
           paths == Split(path, "/")
           n == Len(segs)
           i == PathWildcardIndex(segs)
       IN /\ (Len(paths) < n) => ~matched.ok
          /\ matched.ok <=>
               /\ Len(paths) >= n
               /\ \A k \in 1..n :
                    segs[k].matcher = "label" => PiecesFor(k, i, n, paths) = <<segs[k].label>>
          /\ matched.ok =>
               /\ DOMAIN matched.values = SegmentNames(segs)
               /\ \A x \in SegmentNames(segs) :
                    matched.values[x] = Join(PiecesNamed(x, 1, i, segs, paths), "/")

\* "**/a" against "a/b/a": the "**" takes two segments and leaves the last
C25_Witness ==
  /\ ptpc = "matched"
  /\ template = <<"*", "*", "/", "a">>
  /\ path = <<"a", "/", "b", "/", "a">>
  /\ matched.ok
  /\ matched.values[<<"$", "0">>] = <<"a", "/", "b">>

(***************************************************************************)
(* Properties of the leading slash                                         *)
(***************************************************************************)
\* s with a '/' in front
Slashed(s) == <<"/">> \o s

\* template t has no leading slash
NoLeadingSlash(t) == t = <<>> \/ t[1] # "/"

\* C26: for every template string T without a leading slash,
\* NewPathTemplate("/" + T) succeeds exactly when NewPathTemplate(T) does, and
\* Match of the template "/" + T on the path "/" + p gives the same outcome
\* (the same bindings, or failure) as Match of the template T on the path p.
C26_LeadingSlash ==
  (ptpc # "init" /\ NoLeadingSlash(template))
    => /\ NewPathTemplate(Slashed(template)).ok <=> pt.ok
       /\ (ptpc \in {"matched", "rendered"})
            => Match(NewPathTemplate(Slashed(template)).segments, Slashed(path)) = matched

\* "{x}/**" matched "a/b/a", and so does "/{x}/**" on "/a/b/a"
C26_Witness ==
  /\ ptpc = "matched"
  /\ template = <<"{", "x", "}", "/", "*", "*">>
  /\ path = <<"a", "/", "b", "/", "a">>
  /\ matched.ok
  /\ matched.values[<<"x">>] = <<"a">>
  /\ Match(NewPathTemplate(Slashed(template)).segments, Slashed(path)) = matched


\* ---------------------------------------------------------------------------
\* Properties of Render
\* ---------------------------------------------------------------------------

\* segment k of segs opens a maximal run of consecutive segments that carry the
\* same variable name
OpensRun(segs, k) ==
  /\ segs[k].name # <<>>
  /\ k = 1 \/ segs[k - 1].name # segs[k].name

\* the pieces of the rendered path: the bound value once per run, and the
\* literal text of each unnamed segment
PiecesRendered(segs, b) ==
  LET F[k \in 0..Len(segs)] ==
        IF k = 0 THEN <<>>
        ELSE IF segs[k].name = <<>> THEN Append(F[k - 1], segs[k].label)
        ELSE IF OpensRun(segs, k) THEN Append(F[k - 1], b[segs[k].name])
        ELSE F[k - 1]
  IN F[Len(segs)]

\* some variable name of the template has no entry in b
NameMissing(segs, b) ==
  \E k \in 1..Len(segs) : segs[k].name # <<>> /\ segs[k].name \notin DOMAIN b

\* C27: Render(bindings) fails exactly when some variable name of the template
\* has no entry in bindings; otherwise it returns the '/'-join of one piece per
\* maximal run of consecutive segments with the same variable name (the bound
\* value) and of the literal text of each unnamed segment, whatever other
\* entries bindings holds.
C27_Render ==
  (ptpc \in {"rendered", "renderedWith"})
    => /\ rendered.ok <=> ~NameMissing(pt.segments, given)
       /\ rendered.ok => rendered.built = Join(PiecesRendered(pt.segments, given), "/")

C27_Witness ==
  /\ ptpc = "renderedWith"
  /\ template = <<"{", "x", "=", "a", "/", "*", "}", "/", "a">>
  /\ DOMAIN given = { <<"x">>, <<"z">> }
  /\ given[<<"x">>] = <<"b">>
  /\ rendered.ok
  /\ rendered.built = <<"b", "/", "a">>


\* ---------------------------------------------------------------------------
\* Properties of the entries of the credential cache
\* ---------------------------------------------------------------------------

\* the lookup endpoint answered with a 2xx status and a credential record
SuccessfulLookup(lk) ==
  /\ lk.kind = "response"
  /\ lk.status \in 200..299
  /\ lk.body.form = "creds"

\* the credentials a successful lookup of some pair can deliver
DecodedCredentials ==
  {UnmarshalCredentials(lk.body) :
     lk \in {o \in UNION {LookupOutcomes(pair) : pair \in Pairs} : SuccessfulLookup(o)}}

\* C28: every entry of the credential cache holds credentials decoded from a
\* successful lookup response; after a lookup answered with a non-2xx status or
\* with a body that cannot be parsed, the cache has no entry for the key, so
\* that a later resolution looks the key up again.
C28_CacheHoldsDecoded ==
  /\ \A k \in DOMAIN RegistryUserCache : RegistryUserCache[k] \in DecodedCredentials
  /\ (call.state = "done" /\ call.lk.kind = "response" /\ ~SuccessfulLookup(call.lk))
       => KeysOf(call.type, call.name) \cap DOMAIN RegistryUserCache = {}


\* ---------------------------------------------------------------------------
\* Properties of the cache key
\* ---------------------------------------------------------------------------

\* the credentials the lookup endpoint hands out for pair
CredentialsOf(pair) ==
  {UnmarshalCredentials(lk.body) : lk \in {o \in LookupOutcomes(pair) : SuccessfulLookup(o)}}

\* C29: distinct (region, registry) pairs never share a cache entry: a request
\* made for one pair is never authenticated with credentials that were fetched
\* and cached for another pair, whatever characters ('-' included) the region
\* and the registry contain.
C29_PairsKeptApart ==
  call.state = "done"
    => \A pair \in PairOf(call.type, call.name) :
         \A other \in Pairs \ {pair}, i \in DOMAIN call.requests :
           \A creds \in CredentialsOf(other) :
             /\ call.requests[i].token # creds.Token
             /\ cacheKey(pair[1], pair[2]) \in DOMAIN RegistryUserCache
                  => RegistryUserCache[cacheKey(pair[1], pair[2])] # creds


\* ---------------------------------------------------------------------------
\* Properties of the resource names the service accepts
\* ---------------------------------------------------------------------------

\* the '/'-separated segments of name include an empty one
HasEmptySegment(name) ==
  \E i \in 1..Len(Split(name, "/")) : Split(name, "/")[i] = <<>>

\* C30: a resource name accepted by a template of the service binds every
\* variable to a non-empty string without '/'; a name with an empty segment,
\* such as "projects//locations/a/registries/c", is rejected before any
\* credentials are resolved.
C30_NameSegmentsNonEmpty ==
  (call.state = "done" /\ ~CallSpec[call.type].disabled /\ CallSpec[call.type].tmpl # "none")
    => /\ CallMatch(call.type, call.name).ok
            => \A v \in DOMAIN CallMatch(call.type, call.name).values :
                 /\ CallMatch(call.type, call.name).values[v] # <<>>
                 /\ \A i \in 1..Len(CallMatch(call.type, call.name).values[v]) :
                      CallMatch(call.type, call.name).values[v][i] # "/"
       /\ HasEmptySegment(call.name)
            => /\ call.lookup = "none"
               /\ call.requests = <<>>
               /\ call.err.kind # "nil"

====
